---- MODULE Spec2Model ----
(***************************************************************************)
(* A state-machine model of @uzimaru0000/use-pip: the usePinP hook (the    *)
(* PiP session controller), its render cycles, the font cache and the      *)
(* platform objects the hook drives (relay video element, surface, capture *)
(* stream, Picture-in-Picture requests and events).                        *)
(*                                                                         *)
(* The hook modelled is the current one (audioDestination, debug, keyed    *)
(* font cache); enter, exit and toggle are the same in both versions of    *)
(* the hook present in the sources.                                        *)
(***************************************************************************)
EXTENDS Integers, Sequences, FiniteSets, TLC

\* ------------------------------------------------------------------ bounds
MaxGens == 2        \* relay elements / surfaces / streams created in a behaviour
MaxCycles == 3      \* render cycles started in a behaviour
MaxRequests == 2    \* platform PiP requests pending at a time
MaxEvents == 2      \* PiP events queued and not yet dispatched
MaxRelayRequests == 1   \* requests pending at a time while the caller resizes
MaxFontCycles == 2  \* render cycles started while the caller changes fonts
MaxStallCycles == 2 \* render cycles started while the caller uses the API
MaxMantissa == 12   \* digits value of the numbers given to computeMinimalVideoSize
MaxPlaces == 1      \* decimal places of those numbers
MaxDouble == 100    \* stands for Number.MAX_VALUE: a larger product is Infinity
MaxAttrs == 2       \* attributes of an svg element given to scaleSvgDimensions

\* A ref's null, an absent prop (undefined), a blank surface.
Null == 0

\* ------------------------------------------------------------------ inputs
Scenes == {1, 2}
Sizes == {<<640, 480>>, <<320, 240>>}
AudioSources == {Null, 1, 2}
Handlers == {Null, 1, 2}

\* The audio tracks of an audio destination node's stream.
AudioTracksOf(dest) ==
  IF dest = Null THEN {} ELSE {[kind |-> "audio", id |-> dest]}

\* fontOptions: either resolved fonts only, or a resolver with fonts that
\* may lack their data.
FontOptionsSet ==
  { [fontResolver |-> FALSE,
     fonts |-> <<[name |-> "a", weight |-> 400, data |-> TRUE]>>],
    [fontResolver |-> TRUE,
     fonts |-> <<[name |-> "a", weight |-> 400, data |-> FALSE]>>],
    [fontResolver |-> TRUE,
     fonts |-> <<[name |-> "a", weight |-> 400, data |-> FALSE],
                 [name |-> "b", weight |-> 400, data |-> TRUE]>>] }

FontNames == {"a", "b"}

\* fontOptions of a resolver whose entries all lack their data.
FontOptionsUnresolved ==
  [fontResolver |-> TRUE,
   fonts |-> <<[name |-> "a", weight |-> 400, data |-> FALSE],
               [name |-> "b", weight |-> 400, data |-> FALSE]>>]

\* The keys the cache is called with: font names and the empty string.
CacheKeys == FontNames \cup {""}

\* The Font objects callers store: two of each name, told apart by weight.
CacheFonts == [name : FontNames, weight : {400, 700}]

VARIABLES
  props,          \* the options of the latest render of the component
  isSupported,    \* useState(() => document.pictureInPictureEnabled)
  phase,          \* "created" (effects not yet run), "mounted", "unmounted"
  isPiPActive,    \* useState(false)
  videoRef, canvasRef, streamRef,
  listener,       \* the element and handlers of the PiP listener effect
  curCycle,       \* the render cycle whose cleanup the render effect holds
  videos, canvases, streams,   \* the platform objects created, by id
  stopped,        \* the media tracks that were stopped
  cycles,         \* render cycles in flight
  nCycles,        \* render cycles started
  fontCache,      \* the module-level Map of fonts.ts
  pipElement,     \* document.pictureInPictureElement
  requests,       \* platform PiP requests issued and not yet settled
  events,         \* PiP events queued for dispatch
  calls,          \* the promises returned by enter/exit/toggle, by call
  lastCall,       \* what a caller that watches its own calls did last
  turnCalls,      \* the platform APIs the latest step invoked, in order
  devicePixelRatio,   \* window.devicePixelRatio, as a fraction <<n, d>>
  run,            \* the latest call of a module-level function: arguments, result
  objectURLs      \* the object URLs created and not revoked, by creating cycle

vars == << props, isSupported, phase, isPiPActive, videoRef, canvasRef,
           streamRef, listener, curCycle, videos, canvases, streams, stopped,
           cycles, nCycles, fontCache, pipElement, requests, events, calls,
           lastCall, turnCalls, devicePixelRatio, run, objectURLs >>

\* What no operation of a session writes, the renderer's object URLs apart.
env == << devicePixelRatio, run, objectURLs >>

\* What the module-level functions leave alone, the font cache apart.
session == << props, isSupported, phase, isPiPActive, videoRef, canvasRef,
              streamRef, listener, curCycle, videos, canvases, streams,
              stopped, cycles, nCycles, pipElement, requests, events,
              lastCall, devicePixelRatio, objectURLs >>

\* ----------------------------------------------------------------- helpers
Put(f, k, v) == [x \in DOMAIN f \cup {k} |-> IF x = k THEN v ELSE f[x]]

NewId(f) == Cardinality(DOMAIN f) + 1

NoListener == [video |-> Null, onEnter |-> Null, onLeave |-> Null]

VideoTrack(stream) == [kind |-> "video", id |-> stream]

\* A promise is held while it, or the promise .catch() derived from the
\* platform request, is pending, and through the step that settles it.
Held(cs) ==
  LET live == {k \in DOMAIN cs :
                 cs[k].state = "pending" \/ cs[k].catch = "pending"}
  IN [k \in live |-> cs[k]]

FreeId(cs) ==
  CHOOSE k \in 1..(Cardinality(DOMAIN cs) + 1) :
    k \notin DOMAIN cs /\ \A j \in 1..(k - 1) : j \in DOMAIN cs

\* The state the effects read and write, as one record.
Cur ==
  [ videoRef |-> videoRef, canvasRef |-> canvasRef, streamRef |-> streamRef,
    listener |-> listener, curCycle |-> curCycle, videos |-> videos,
    canvases |-> canvases, streams |-> streams, stopped |-> stopped,
    cycles |-> cycles, nCycles |-> nCycles, fontCache |-> fontCache ]

Commit(s) ==
  /\ videoRef' = s.videoRef
  /\ canvasRef' = s.canvasRef
  /\ streamRef' = s.streamRef
  /\ listener' = s.listener
  /\ curCycle' = s.curCycle
  /\ videos' = s.videos
  /\ canvases' = s.canvases
  /\ streams' = s.streams
  /\ stopped' = s.stopped
  /\ cycles' = s.cycles
  /\ nCycles' = s.nCycles
  /\ fontCache' = s.fontCache

\* ---------------------------------------------------------- the font cache
\* The Map of fonts.ts as a function of its keys; NoFont is an absent entry,
\* for which get answers null.
NoFont == [name |-> "", weight |-> 0]

getCachedFonts(cache, key) == cache[key]

\* setCachedFonts keeping the font a key already has.
setCachedFontsIfAbsent(cache, key, font) ==
  IF cache[key] = NoFont THEN [cache EXCEPT ![key] = font] ELSE cache

setCachedFonts(cache, key, font) == [cache EXCEPT ![key] = font]

\* clearFontCache(key?): args is <<>> for a call without key, <<key>>
\* otherwise; "if (key)" is false for undefined and for the empty string.
clearFontCache(cache, args) ==
  IF Len(args) > 0 /\ args[1] # "" THEN [cache EXCEPT ![args[1]] = NoFont]
  ELSE [k \in DOMAIN cache |-> NoFont]

\* The calls of the cache's functions by the application.
SetCachedFonts(key, font) ==
  /\ fontCache' = setCachedFonts(fontCache, key, font)
  /\ run' = [op |-> "setCachedFonts", args |-> <<key, font>>]
  /\ turnCalls' = <<>>
  /\ calls' = Held(calls)
  /\ UNCHANGED session

GetCachedFonts(key) ==
  /\ run' = [op |-> "getCachedFonts", args |-> <<key>>,
             result |-> getCachedFonts(fontCache, key)]
  /\ turnCalls' = <<>>
  /\ calls' = Held(calls)
  /\ UNCHANGED <<session, fontCache>>

ClearFontCache(args) ==
  /\ fontCache' = clearFontCache(fontCache, args)
  /\ run' = [op |-> "clearFontCache", args |-> args]
  /\ turnCalls' = <<>>
  /\ calls' = Held(calls)
  /\ UNCHANGED session

\* ------------------------------------------------ computeMinimalVideoSize
\* A JavaScript number: NaN, an infinity, or the decimal fraction
\* s * m / 10^d with sign s (d = 0 for integers, and m has no trailing zero
\* otherwise, as in the number's shortest decimal form).
Number(k, s, m, d) == [k |-> k, s |-> s, m |-> m, d |-> d]

NaN == Number("nan", 1, 0, 0)

Infinity(s) == Number("inf", s, 0, 0)

Whole(s, n) ==
  IF n > MaxDouble THEN Infinity(s) ELSE Number("num", IF n = 0 THEN 1 ELSE s, n, 0)

\* The numbers a caller passes: zero, NaN, the infinities, and the fractions
\* of up to MaxPlaces decimal places, of either sign.
Numbers ==
  {NaN, Infinity(1), Infinity(-1), Whole(1, 0)} \cup
  {x \in [k : {"num"}, s : {1, -1}, m : 1..MaxMantissa, d : 0..MaxPlaces] :
     x.d = 0 \/ x.m % 10 # 0}

RECURSIVE Pow10(_)
Pow10(n) == IF n = 0 THEN 1 ELSE 10 * Pow10(n - 1)

isFinite(x) == x.k = "num"

\* x <= 0, which is false for NaN.
NotPositive(x) ==
  \/ x.k = "inf" /\ x.s = -1
  \/ x.k = "num" /\ (x.m = 0 \/ x.s = -1)

\* decimalPlaces(value): the digits after the point in value.toString(),
\* and for the exponent form the base's digits after the point less the
\* exponent, which is the same count.
decimalPlaces(x) == x.d

\* value * 10 ** places for places >= decimalPlaces(value): an integer, or
\* Infinity when the power or the product exceeds the largest double.
TimesPow10(x, places) ==
  IF x.k = "nan" THEN NaN
  ELSE IF x.k = "inf" THEN x
  ELSE IF Pow10(places) > MaxDouble
    THEN (IF x.m = 0 THEN NaN ELSE Infinity(x.s))
  ELSE Whole(x.s, x.m * Pow10(places - x.d))

Abs(x) == [x EXCEPT !.s = 1]

\* a % b of integers, NaN and infinities.
Rem(a, b) ==
  IF a.k # "num" \/ b.k = "nan" \/ (b.k = "num" /\ b.m = 0) THEN NaN
  ELSE IF b.k = "inf" THEN a
  ELSE Whole(a.s, a.m % b.m)

\* The while loop: the value of a on exit, or NaN without exit when the
\* loop's state repeats (b !== 0 holds for NaN, and NaN % x is NaN).
RECURSIVE EuclidLoop(_, _)
EuclidLoop(a, b) ==
  IF b.k = "num" /\ b.m = 0 THEN [exits |-> TRUE, a |-> a]
  ELSE IF <<b, Rem(a, b)>> = <<a, b>> THEN [exits |-> FALSE, a |-> a]
  ELSE EuclidLoop(b, Rem(a, b))

\* Math.round(x / divisor) for a divisor that is a positive integer or an
\* infinity.
RoundQuotient(x, divisor) ==
  IF x.k = "nan" THEN NaN
  ELSE IF divisor.k = "inf"
    THEN (IF x.k = "inf" THEN NaN ELSE Whole(1, 0))
  ELSE IF x.k = "inf" THEN x
  ELSE LET q == (2 * x.s * x.m + divisor.m) \div (2 * divisor.m)
       IN Whole(IF q < 0 THEN -1 ELSE 1, IF q < 0 THEN -q ELSE q)

Size(w, h) == [returns |-> TRUE, width |-> w, height |-> h]

\* The function after its guard.
MinimalVideoSize(width, height) ==
  LET places == IF decimalPlaces(width) > decimalPlaces(height)
                  THEN decimalPlaces(width) ELSE decimalPlaces(height)
      w == TimesPow10(width, places)
      h == TimesPow10(height, places)
      loop == EuclidLoop(Abs(w), Abs(h))
      divisor == IF loop.a.k = "nan" \/ (loop.a.k = "num" /\ loop.a.m = 0)
                   THEN Whole(1, 1) ELSE loop.a
  IN IF ~loop.exits THEN [returns |-> FALSE, width |-> NaN, height |-> NaN]
     ELSE Size(RoundQuotient(w, divisor), RoundQuotient(h, divisor))

\* computeMinimalVideoSize guarding its width only.
computeMinimalVideoSizeWidthOnly(width, height) ==
  IF ~isFinite(width) \/ NotPositive(width)
    THEN Size(Whole(1, 1), Whole(1, 1))
  ELSE MinimalVideoSize(width, height)

computeMinimalVideoSize(width, height) ==
  IF ~isFinite(width) \/ ~isFinite(height)
     \/ NotPositive(width) \/ NotPositive(height)
    THEN Size(Whole(1, 1), Whole(1, 1))
  ELSE MinimalVideoSize(width, height)

ComputeMinimalVideoSize(width, height) ==
  /\ run' = [op |-> "computeMinimalVideoSize", args |-> <<width, height>>,
             result |-> computeMinimalVideoSize(width, height)]
  /\ turnCalls' = <<>>
  /\ calls' = Held(calls)
  /\ UNCHANGED <<session, fontCache>>

\* ------------------------------------------------ effect 1: video and canvas
CreateVideo(s, p) ==
  LET v == NewId(s.videos) IN
  [s EXCEPT !.videos = Put(@, v, [attached |-> TRUE, paused |-> TRUE,
                                   currentTime |-> 0, muted |-> TRUE,
                                   srcObject |-> Null]),
            !.videoRef = v]

CreateCanvas(s, p) ==
  LET c == NewId(s.canvases) IN
  [s EXCEPT !.canvases = Put(@, c, [attached |-> TRUE, width |-> p.width,
                                     height |-> p.height, scene |-> Null,
                                     drawn |-> <<>>,
                                     by |-> 0, good |-> Null,
                                     visible |-> p.debug]),
            !.canvasRef = c]

CaptureStream(s) ==
  LET m == NewId(s.streams) IN
  [s EXCEPT !.streams = Put(@, m, [canvas |-> s.canvasRef,
                                    tracks |-> {VideoTrack(m)}]),
            !.streamRef = m,
            !.videos[s.videoRef].srcObject = m]

InitEffect(s, p) ==
  LET s1 == IF s.videoRef = Null THEN CreateVideo(s, p) ELSE s
      s2 == IF s1.canvasRef = Null THEN CreateCanvas(s1, p) ELSE s1
  IN IF s2.canvasRef # Null /\ s2.videoRef # Null /\ s2.streamRef = Null
       THEN CaptureStream(s2) ELSE s2

\* The init effect's cleanup leaving the capture stream's tracks running.
InitCleanupNoStop(s) ==
  LET s1 == IF s.videoRef # Null
              THEN [s EXCEPT !.videos[s.videoRef].attached = FALSE,
                             !.videoRef = Null]
              ELSE s
      s2 == IF s1.canvasRef # Null
              THEN [s1 EXCEPT !.canvases[s1.canvasRef].attached = FALSE,
                              !.canvasRef = Null]
              ELSE s1
  IN IF s2.streamRef # Null THEN [s2 EXCEPT !.streamRef = Null] ELSE s2

\* document.body.removeChild(node) throws if node is not a child of the
\* body: the cleanup raises if a ref holds an element that is not attached.
TeardownRaises(s) ==
  \/ s.videoRef # Null /\ ~s.videos[s.videoRef].attached
  \/ s.canvasRef # Null /\ ~s.canvases[s.canvasRef].attached

InitCleanup(s) ==
  LET s1 == IF s.videoRef # Null
              THEN [s EXCEPT !.videos[s.videoRef].attached = FALSE,
                             !.videoRef = Null]
              ELSE s
      s2 == IF s1.canvasRef # Null
              THEN [s1 EXCEPT !.canvases[s1.canvasRef].attached = FALSE,
                              !.canvasRef = Null]
              ELSE s1
  IN IF s2.streamRef # Null
       THEN [s2 EXCEPT !.stopped = @ \cup s2.streams[s2.streamRef].tracks,
                       !.streamRef = Null]
       ELSE s2

\* ------------------------------------------------ effect 2: audio destination
AudioEffectNoRemove(s, p) ==
  IF s.streamRef = Null THEN s
  ELSE LET s1 == IF s.videoRef # Null
                   THEN [s EXCEPT !.videos[s.videoRef].muted = FALSE]
                   ELSE s
       IN [s1 EXCEPT !.streams[s.streamRef].tracks =
                        @ \cup AudioTracksOf(p.audioDestination)]

AudioEffect(s, p) ==
  IF s.streamRef = Null THEN s
  ELSE LET s1 == IF s.videoRef # Null
                   THEN [s EXCEPT !.videos[s.videoRef].muted = FALSE]
                   ELSE s
           kept == {t \in s1.streams[s.streamRef].tracks : t.kind # "audio"}
       IN [s1 EXCEPT !.streams[s.streamRef].tracks =
                        kept \cup AudioTracksOf(p.audioDestination)]

\* ------------------------------------------------ effect 3: the render cycle
FontOf(entry) == [name |-> entry.name, weight |-> entry.weight]

\* Math.round of the non-negative fraction n / d.
Round(n, d) == (2 * n + d) \div (2 * d)

\* renderToCanvas passing the physical dimensions on to the rasterizer.
RenderToCanvasStartScaled(s, c) ==
  LET w == Round(c.width * devicePixelRatio[1], devicePixelRatio[2])
      h == Round(c.height * devicePixelRatio[1], devicePixelRatio[2])
  IN [s EXCEPT !.canvases[c.canvas] =
                  [@ EXCEPT !.width = w, !.height = h, !.scene = Null,
                             !.drawn = <<>>],
               !.cycles = (@ \ {c}) \cup
                            {[c EXCEPT !.pc = "satori", !.satori = <<w, h>>]}]

\* renderToCanvas up to its first await: the surface takes its pixel
\* dimensions, the logical ones times the device pixel ratio (assigning a
\* canvas's width or height resets its bitmap), then the rasterizer is
\* invoked with the logical dimensions.  The surface's "by" names the cycle
\* that drew on it last, its "good" what that cycle drew.
RenderToCanvasStart(s, c) ==
  LET w == Round(c.width * devicePixelRatio[1], devicePixelRatio[2])
      h == Round(c.height * devicePixelRatio[1], devicePixelRatio[2])
  IN [s EXCEPT !.canvases[c.canvas] =
                  [@ EXCEPT !.width = w, !.height = h, !.scene = Null,
                             !.drawn = <<>>],
               !.cycles = (@ \ {c}) \cup
                            {[c EXCEPT !.pc = "satori",
                                       !.satori = <<c.width, c.height>>]}]

\* The font step of render() asking the cache first, for every entry.
FontAtStartCacheFirst(cache, fo, i) ==
  IF getCachedFonts(cache, fo.fonts[i].name) # NoFont
    THEN getCachedFonts(cache, fo.fonts[i].name)
  ELSE IF ~fo.fontResolver \/ fo.fonts[i].data THEN FontOf(fo.fonts[i])
  ELSE NoFont

\* The font step of render() calling the resolver without asking the cache.
FontAtStartUncached(cache, fo, i) ==
  IF ~fo.fontResolver \/ fo.fonts[i].data THEN FontOf(fo.fonts[i])
  ELSE NoFont

\* What the font step of render() has for entry i before any await: the entry
\* itself if it carries data, else the cached font, else nothing yet (the
\* resolver is called and awaited).
FontAtStart(cache, fo, i) ==
  IF ~fo.fontResolver \/ fo.fonts[i].data THEN FontOf(fo.fonts[i])
  ELSE getCachedFonts(cache, fo.fonts[i].name)

\* The render effect capturing a stream of the surface at every run.
RenderEffectRecapturing(s, p) ==
  IF s.canvasRef = Null THEN [s EXCEPT !.curCycle = Null]
  ELSE
    LET n == s.nCycles + 1
        fo == p.fontOptions
        fs == [i \in DOMAIN fo.fonts |-> FontAtStart(s.fontCache, fo, i)]
        c == [n |-> n, canvas |-> s.canvasRef, scene |-> p.element,
              width |-> p.width, height |-> p.height, entries |-> fo.fonts,
              fonts |-> fs, waiting |-> {i \in DOMAIN fs : fs[i] = NoFont},
              pc |-> "fonts", cancelled |-> FALSE, satori |-> <<>>]
        s0 == IF s.streamRef = Null THEN s ELSE CaptureStream(s)
        s1 == [s0 EXCEPT !.nCycles = n, !.curCycle = n,
                         !.cycles = @ \cup {c}]
    IN IF c.waiting = {} THEN RenderToCanvasStart(s1, c) ELSE s1

\* The effect's "cancelled" flag is false when render() tests it, at the
\* start of the call the effect makes; the cleanup sets it afterwards.
RenderEffect(s, p) ==
  IF s.canvasRef = Null THEN [s EXCEPT !.curCycle = Null]
  ELSE
    LET n == s.nCycles + 1
        fo == p.fontOptions
        fs == [i \in DOMAIN fo.fonts |-> FontAtStart(s.fontCache, fo, i)]
        c == [n |-> n, canvas |-> s.canvasRef, scene |-> p.element,
              width |-> p.width, height |-> p.height, entries |-> fo.fonts,
              fonts |-> fs, waiting |-> {i \in DOMAIN fs : fs[i] = NoFont},
              pc |-> "fonts", cancelled |-> FALSE, satori |-> <<>>]
        s1 == [s EXCEPT !.nCycles = n, !.curCycle = n,
                        !.cycles = @ \cup {c}]
    IN IF c.waiting = {} THEN RenderToCanvasStart(s1, c) ELSE s1

RenderCleanup(s) ==
  [s EXCEPT !.cycles = {IF c.n = s.curCycle THEN [c EXCEPT !.cancelled = TRUE]
                        ELSE c : c \in s.cycles}]

\* ------------------------------------------------ effect 4: PiP listeners
ListenerEffect(s, p) ==
  IF s.videoRef = Null THEN [s EXCEPT !.listener = NoListener]
  ELSE [s EXCEPT !.listener = [video |-> s.videoRef, onEnter |-> p.onEnter,
                               onLeave |-> p.onLeave]]

ListenerCleanup(s) == [s EXCEPT !.listener = NoListener]

\* ------------------------------------------------------ scaleSvgDimensions
\* Markup is the sequence of its svg start tags, the outer element's first,
\* each the sequence of its attributes.  An attribute's name is a prefix
\* and a base ("stroke-" and "width"); its value is a number in digits, or
\* some other text (a percentage, a viewBox).
NotNumber == -1

Attr(prefix, base, value) == [prefix |-> prefix, base |-> base, value |-> value]

SvgAttrs ==
  { Attr("", "width", 333), Attr("", "width", NotNumber),
    Attr("", "height", 125), Attr("stroke-", "width", 3),
    Attr("line", "width", 3), Attr("", "viewBox", NotNumber) }

\* The start tags of up to MaxAttrs attributes, no name twice.
SvgTags ==
  {as \in UNION {[1..k -> SvgAttrs] : k \in 0..MaxAttrs} :
     \A i, j \in DOMAIN as :
       i # j => <<as[i].prefix, as[i].base>> # <<as[j].prefix, as[j].base>>}

\* An svg element, alone or with an svg element nested in it.
Markups == {<<tag>> : tag \in SvgTags} \cup (SvgTags \X SvgTags)

\* The prefixes after which \b matches: none (the name follows a space) and
\* those that end in a character that is not a word character.
BoundaryPrefixes == {"", "stroke-"}

\* (<svg\b[^>]*\b)base="(\d+(?:\.\d+)?)" matches at this attribute.
MatchesAttr(a, base) ==
  /\ a.base = base
  /\ a.prefix \in BoundaryPrefixes
  /\ a.value # NotNumber

\* svg.replace(regex, ...): the match is in the first tag that has one (the
\* pattern does not reach past the tag's ">") and, [^>]* being greedy, at
\* the last attribute of it that matches; the value becomes
\* Math.round(Number(value) * scale).
ReplaceAttr(svg, base, scale) ==
  LET hits == {tag \in DOMAIN svg :
                 \E i \in DOMAIN svg[tag] : MatchesAttr(svg[tag][i], base)}
  IN IF hits = {} THEN svg
     ELSE LET tag == CHOOSE x \in hits : \A y \in hits : x <= y
              at == {i \in DOMAIN svg[tag] : MatchesAttr(svg[tag][i], base)}
              i == CHOOSE x \in at : \A y \in at : x >= y
          IN [svg EXCEPT ![tag][i].value = Round(@ * scale[1], scale[2])]

scaleSvgDimensions(svg, scale) ==
  IF scale = <<1, 1>> THEN svg
  ELSE ReplaceAttr(ReplaceAttr(svg, "width", scale), "height", scale)

ScaleSvgDimensions(svg, scale) ==
  /\ run' = [op |-> "scaleSvgDimensions", args |-> <<svg, scale>>,
             result |-> scaleSvgDimensions(svg, scale)]
  /\ turnCalls' = <<>>
  /\ calls' = Held(calls)
  /\ UNCHANGED <<session, fontCache>>

\* ------------------------------------------------ commits of the component
InitDeps(p) == <<p.width, p.height, p.debug>>
AudioDeps(p) == <<p.audioDestination>>
RenderDeps(p) ==
  <<p.element, p.width, p.height, p.fontOptions.fontResolver,
    p.fontOptions.fonts>>
ListenerDeps(p) == <<p.onEnter, p.onLeave>>

\* First commit: every effect runs, in the order the hook declares them.
Mount ==
  /\ phase = "created"
  /\ phase' = "mounted"
  /\ Commit(ListenerEffect(RenderEffect(AudioEffect(InitEffect(Cur, props),
                                                     props), props), props))
  /\ turnCalls' = <<>>
  /\ calls' = Held(calls)
  /\ UNCHANGED <<env, props, isSupported, isPiPActive, pipElement, requests,
                  events, lastCall>>

\* A later commit with options p: the cleanups of the effects whose
\* dependencies changed run first, then those effects run again.
AfterCleanups(old, p) ==
  LET s1 == IF InitDeps(p) # InitDeps(old) THEN InitCleanup(Cur) ELSE Cur
      s2 == IF RenderDeps(p) # RenderDeps(old) THEN RenderCleanup(s1) ELSE s1
  IN IF ListenerDeps(p) # ListenerDeps(old) THEN ListenerCleanup(s2) ELSE s2

AfterEffects(old, p) ==
  LET s0 == AfterCleanups(old, p)
      s1 == IF InitDeps(p) # InitDeps(old) THEN InitEffect(s0, p) ELSE s0
      s2 == IF AudioDeps(p) # AudioDeps(old) THEN AudioEffect(s1, p) ELSE s1
      s3 == IF RenderDeps(p) # RenderDeps(old) THEN RenderEffect(s2, p) ELSE s2
  IN IF ListenerDeps(p) # ListenerDeps(old) THEN ListenerEffect(s3, p) ELSE s3

Rerender(p) ==
  /\ phase = "mounted"
  /\ p # props
  /\ InitDeps(p) # InitDeps(props) => Cardinality(DOMAIN videos) < MaxGens
  /\ RenderDeps(p) # RenderDeps(props) => nCycles < MaxCycles
  /\ props' = p
  /\ Commit(AfterEffects(props, p))
  /\ turnCalls' = <<>>
  /\ calls' = Held(calls)
  /\ UNCHANGED <<env, isSupported, phase, isPiPActive, pipElement, requests,
                  events, lastCall>>

Unmount ==
  /\ phase = "mounted"
  /\ phase' = "unmounted"
  /\ Commit(ListenerCleanup(RenderCleanup(InitCleanup(Cur))))
  /\ turnCalls' = <<>>
  /\ calls' = Held(calls)
  /\ UNCHANGED <<env, props, isSupported, isPiPActive, pipElement, requests,
                  events, lastCall>>

\* ------------------------------------------------ the render cycle's awaits
Api(name, target) == [api |-> name, target |-> target]

Replace(cs, c, d) == (cs \ {c}) \cup {d}

\* render() going on to the renderer after a resolver failed.
ResolveFontRenderingAnyway(c, i, ok) ==
  /\ c \in cycles
  /\ i \in c.waiting
  /\ LET font == FontOf(c.entries[i])
         left == c.waiting \ {i}
         c1 == IF ok THEN [c EXCEPT !.fonts[i] = font, !.waiting = left]
               ELSE [c EXCEPT !.waiting = left]
         s0 == IF ok
                 THEN [Cur EXCEPT !.fontCache =
                                     setCachedFonts(@, c.entries[i].name, font)]
                 ELSE Cur
         s1 == [s0 EXCEPT !.cycles = Replace(@, c, c1)]
     IN /\ Commit(IF left # {} THEN s1
                  ELSE IF c1.pc = "fonts" THEN RenderToCanvasStart(s1, c1)
                  ELSE [s1 EXCEPT !.cycles = @ \ {c1}])
        /\ turnCalls' = IF ~ok /\ c.pc = "fonts"
                          THEN <<Api("unhandledrejection", c.n)>> ELSE <<>>
  /\ calls' = Held(calls)
  /\ UNCHANGED <<env, props, isSupported, phase, isPiPActive, pipElement,
                  requests, events, lastCall>>

\* fontResolver(font) settles for entry i of cycle c.
ResolveFont(c, i, ok) ==
  /\ c \in cycles
  /\ i \in c.waiting
  /\ LET font == FontOf(c.entries[i])
         left == c.waiting \ {i}
         c1 == IF ok THEN [c EXCEPT !.fonts[i] = font, !.waiting = left]
               ELSE [c EXCEPT !.waiting = left, !.pc = "aborted"]
         s0 == IF ok
                 THEN [Cur EXCEPT !.fontCache =
                                     setCachedFonts(@, c.entries[i].name, font)]
                 ELSE Cur
         s1 == [s0 EXCEPT !.cycles = Replace(@, c, c1)]
     IN /\ Commit(IF left # {} THEN s1
                  ELSE IF c1.pc = "fonts" THEN RenderToCanvasStart(s1, c1)
                  ELSE [s1 EXCEPT !.cycles = @ \ {c1}])
        /\ turnCalls' = IF ~ok /\ c.pc = "fonts"
                          THEN <<Api("unhandledrejection", c.n)>> ELSE <<>>
  /\ calls' = Held(calls)
  /\ UNCHANGED <<env, props, isSupported, phase, isPiPActive, pipElement,
                  requests, events, lastCall>>

\* satori() settles for cycle c: on success svgToImage creates the object URL
\* and awaits img.decode(); on failure render() logs the error.
SatoriSettle(c, ok) ==
  /\ c \in cycles
  /\ c.pc = "satori"
  /\ cycles' = IF ok THEN Replace(cycles, c, [c EXCEPT !.pc = "decode"])
               ELSE cycles \ {c}
  /\ objectURLs' = IF ok THEN objectURLs \cup {c.n} ELSE objectURLs
  /\ turnCalls' = IF ok THEN <<Api("createObjectURL", c.n)>>
                  ELSE <<Api("console.error", c.n)>>
  /\ calls' = Held(calls)
  /\ UNCHANGED <<devicePixelRatio, run, props, isSupported, phase, isPiPActive, videoRef, canvasRef,
                  streamRef, listener, curCycle, videos, canvases, streams,
                  stopped, nCycles, fontCache, pipElement, requests, events,
                  lastCall>>

\* drawImageToCanvas drawing at the cycle's logical dimensions.
drawImageToCanvasLogical(cs, c) ==
  [cs EXCEPT ![c.canvas] = [@ EXCEPT !.scene = c.scene, !.by = c.n,
                                     !.good = c.scene,
                                     !.drawn = <<0, 0, c.width, c.height>>]]

\* The draw of a cycle that has its decoded image, on a surface that has
\* its 2D context: ctx.drawImage(image, 0, 0, canvas.width, canvas.height).
\* The surface's "drawn" holds the arguments after the image.
drawImageToCanvas(cs, c) ==
  [cs EXCEPT ![c.canvas] = [@ EXCEPT !.scene = c.scene, !.by = c.n,
                                     !.good = c.scene,
                                     !.drawn = <<0, 0, cs[c.canvas].width,
                                                cs[c.canvas].height>>]]

\* renderToCanvas drawing whatever img.decode() answered.
DecodeSettleDrawingAnyway(c, ok, ctx) ==
  /\ c \in cycles
  /\ c.pc = "decode"
  /\ cycles' = cycles \ {c}
  /\ objectURLs' = objectURLs \ {c.n}
  /\ canvases' = IF ctx THEN drawImageToCanvas(canvases, c) ELSE canvases
  /\ turnCalls' =
       <<Api("revokeObjectURL", c.n)>> \o
       (IF ctx
          THEN <<Api("drawImage", c.canvas)>> \o
               (IF ~ok THEN <<Api("console.error", c.n)>>
                ELSE IF streamRef # Null
                  THEN <<Api("requestFrame", streamRef)>> ELSE <<>>)
          ELSE <<Api("console.error", c.n)>>)
  /\ calls' = Held(calls)
  /\ UNCHANGED <<devicePixelRatio, run, props, isSupported, phase, isPiPActive,
                  videoRef, canvasRef, streamRef, listener, curCycle, videos,
                  streams, stopped, nCycles, fontCache, pipElement, requests,
                  events, lastCall>>

\* render() requesting a frame whether or not the draw was made.
DecodeSettleFrameAlways(c, ok, ctx) ==
  /\ c \in cycles
  /\ c.pc = "decode"
  /\ cycles' = cycles \ {c}
  /\ objectURLs' = objectURLs \ {c.n}
  /\ canvases' = IF ok /\ ctx THEN drawImageToCanvas(canvases, c) ELSE canvases
  /\ turnCalls' =
       <<Api("revokeObjectURL", c.n)>> \o
       (IF ok /\ ctx THEN <<Api("drawImage", c.canvas)>>
        ELSE <<Api("console.error", c.n)>>) \o
       (IF streamRef # Null THEN <<Api("requestFrame", streamRef)>> ELSE <<>>)
  /\ calls' = Held(calls)
  /\ UNCHANGED <<devicePixelRatio, run, props, isSupported, phase, isPiPActive,
                  videoRef, canvasRef, streamRef, listener, curCycle, videos,
                  streams, stopped, nCycles, fontCache, pipElement, requests,
                  events, lastCall>>

\* svgToImage without its finally: the URL is revoked only after a decode
\* that succeeded.
DecodeSettleLeaking(c, ok, ctx) ==
  /\ c \in cycles
  /\ c.pc = "decode"
  /\ cycles' = cycles \ {c}
  /\ objectURLs' = IF ok THEN objectURLs \ {c.n} ELSE objectURLs
  /\ canvases' = IF ok /\ ctx THEN drawImageToCanvas(canvases, c) ELSE canvases
  /\ turnCalls' =
       (IF ok THEN <<Api("revokeObjectURL", c.n)>> ELSE <<>>) \o
       (IF ok /\ ctx
          THEN <<Api("drawImage", c.canvas)>> \o
               (IF streamRef # Null
                  THEN <<Api("requestFrame", streamRef)>> ELSE <<>>)
          ELSE <<Api("console.error", c.n)>>)
  /\ calls' = Held(calls)
  /\ UNCHANGED <<devicePixelRatio, run, props, isSupported, phase, isPiPActive,
                  videoRef, canvasRef, streamRef, listener, curCycle, videos,
                  streams, stopped, nCycles, fontCache, pipElement, requests,
                  events, lastCall>>

\* img.decode() settles for cycle c; ctx says whether the surface provides a
\* 2D context.  svgToImage's finally revokes the URL either way, before its
\* result (the image, or the decode's failure) reaches renderToCanvas; after
\* a draw the capture stream's video track is asked for a frame, and a
\* failure is logged by render().
DecodeSettle(c, ok, ctx) ==
  /\ c \in cycles
  /\ c.pc = "decode"
  /\ cycles' = cycles \ {c}
  /\ objectURLs' = objectURLs \ {c.n}
  /\ canvases' = IF ok /\ ctx THEN drawImageToCanvas(canvases, c) ELSE canvases
  /\ turnCalls' =
       <<Api("revokeObjectURL", c.n)>> \o
       (IF ok /\ ctx
          THEN <<Api("drawImage", c.canvas)>> \o
               (IF streamRef # Null
                  THEN <<Api("requestFrame", streamRef)>> ELSE <<>>)
          ELSE <<Api("console.error", c.n)>>)
  /\ calls' = Held(calls)
  /\ UNCHANGED <<devicePixelRatio, run, props, isSupported, phase, isPiPActive,
                  videoRef, canvasRef, streamRef, listener, curCycle, videos,
                  streams, stopped, nCycles, fontCache, pipElement, requests,
                  events, lastCall>>

\* ------------------------------------------------ enter, exit, toggle
\* What a call of the API reads and writes, as one record.
CallState ==
  [videos |-> videos, requests |-> requests, calls |-> Held(calls),
   log |-> <<>>]

Promise(op, state, err) == [op |-> op, state |-> state, err |-> err,
                            catch |-> "none"]

\* video.play() takes effect: the element plays, and its playback position
\* leaves the start (1 stands for any position after 0).
Playing(video) == [video EXCEPT !.paused = FALSE, !.currentTime = 1]

\* enter() without its support check.
enterUnchecked(t, playOk) ==
  IF videoRef = Null \/ canvasRef = Null
    THEN [t EXCEPT !.calls = Put(@, FreeId(@),
                                 Promise("enter", "rejected", "init"))]
  ELSE
    [t EXCEPT
       !.videos[videoRef] = IF playOk THEN Playing(@) ELSE @,
       !.requests = @ \cup {[kind |-> "enter", video |-> videoRef,
                             call |-> FreeId(t.calls)]},
       !.calls = Put(@, FreeId(@), [Promise("enter", "fulfilled", "none")
                                      EXCEPT !.catch = "pending"]),
       !.log = @ \o <<Api("play", videoRef),
                      Api("requestPictureInPicture", videoRef)>>]

\* enter() awaiting play() before it requests PiP: the request is not made
\* in the turn of the call.
enterAwaitingPlay(t, playOk) ==
  IF ~isSupported
    THEN [t EXCEPT !.calls = Put(@, FreeId(@), Promise("enter", "rejected",
                                                       "unsupported"))]
  ELSE IF videoRef = Null \/ canvasRef = Null
    THEN [t EXCEPT !.calls = Put(@, FreeId(@),
                                 Promise("enter", "rejected", "init"))]
  ELSE
    [t EXCEPT
       !.videos[videoRef] = IF playOk THEN Playing(@) ELSE @,
       !.calls = Put(@, FreeId(@), Promise("enter", "fulfilled", "none")),
       !.log = @ \o <<Api("play", videoRef)>>]

\* enter() without its check of the elements: video.play() on a null ref
\* throws a TypeError.
enterNoInitCheck(t, playOk) ==
  IF ~isSupported
    THEN [t EXCEPT !.calls = Put(@, FreeId(@), Promise("enter", "rejected",
                                                       "unsupported"))]
  ELSE IF videoRef = Null
    THEN [t EXCEPT !.calls = Put(@, FreeId(@),
                                 Promise("enter", "rejected", "TypeError"))]
  ELSE
    [t EXCEPT
       !.videos[videoRef] = IF playOk THEN Playing(@) ELSE @,
       !.requests = @ \cup {[kind |-> "enter", video |-> videoRef,
                             call |-> FreeId(t.calls)]},
       !.calls = Put(@, FreeId(@), [Promise("enter", "fulfilled", "none")
                                      EXCEPT !.catch = "pending"]),
       !.log = @ \o <<Api("play", videoRef),
                      Api("requestPictureInPicture", videoRef)>>]

\* enter(): both platform calls are made before the async function returns;
\* the promise it returns fulfils on return, and the rejection of
\* requestPictureInPicture() goes to the promise that .catch() derives.
enter(t, playOk) ==
  IF ~isSupported
    THEN [t EXCEPT !.calls = Put(@, FreeId(@), Promise("enter", "rejected",
                                                       "unsupported"))]
  ELSE IF videoRef = Null \/ canvasRef = Null
    THEN [t EXCEPT !.calls = Put(@, FreeId(@),
                                 Promise("enter", "rejected", "init"))]
  ELSE
    [t EXCEPT
       !.videos[videoRef] = IF playOk THEN Playing(@) ELSE @,
       !.requests = @ \cup {[kind |-> "enter", video |-> videoRef,
                             call |-> FreeId(t.calls)]},
       !.calls = Put(@, FreeId(@), [Promise("enter", "fulfilled", "none")
                                      EXCEPT !.catch = "pending"]),
       !.log = @ \o <<Api("play", videoRef),
                      Api("requestPictureInPicture", videoRef)>>]

\* exit()'s tail pausing without resetting the position.
ExitTailNoReset(t, video, call) ==
  IF video = Null THEN [t EXCEPT !.calls[call].state = "fulfilled"]
  ELSE [t EXCEPT !.videos[video].paused = TRUE,
                 !.calls[call].state = "fulfilled",
                 !.log = @ \o <<Api("pause", video)>>]

\* The statements of exit() after its await.
ExitTail(t, video, call) ==
  IF video = Null THEN [t EXCEPT !.calls[call].state = "fulfilled"]
  ELSE [t EXCEPT !.videos[video] = [@ EXCEPT !.paused = TRUE,
                                             !.currentTime = 0],
                 !.calls[call].state = "fulfilled",
                 !.log = @ \o <<Api("pause", video)>>]

\* exit(): awaits the platform only if some element is in PiP.
exit(t) ==
  LET call == FreeId(t.calls)
      t1 == [t EXCEPT !.calls = Put(@, call, Promise("exit", "pending",
                                                     "none"))]
  IN IF pipElement # Null
       THEN [t1 EXCEPT !.requests = @ \cup {[kind |-> "exit",
                                             video |-> videoRef,
                                             call |-> call]},
                       !.log = @ \o <<Api("exitPictureInPicture", Null)>>]
       ELSE ExitTail(t1, videoRef, call)

\* toggle() calling exit() or else enter().
toggleEither(t, playOk) ==
  LET t2 == IF isPiPActive THEN exit(t) ELSE enter(t, playOk)
  IN [t2 EXCEPT !.calls = Put(@, FreeId(@),
                              Promise("toggle", "fulfilled", "none"))]

\* toggle() returning the promise of the enter() it calls.
toggleReturningEnter(t, playOk) ==
  LET t1 == IF isPiPActive THEN exit(t) ELSE t
      k == FreeId(t1.calls)
      t2 == enter(t1, playOk)
  IN [t2 EXCEPT !.calls = Put(@, FreeId(@),
                              Promise("toggle", t2.calls[k].state,
                                      t2.calls[k].err))]

\* toggle(): exit() is not awaited, enter() is called in any case; the
\* promises of both are dropped.
toggle(t, playOk) ==
  LET t1 == IF isPiPActive THEN exit(t) ELSE t
      t2 == enter(t1, playOk)
  IN [t2 EXCEPT !.calls = Put(@, FreeId(@),
                              Promise("toggle", "fulfilled", "none"))]

CommitCall(t, watched) ==
  /\ Cardinality(t.requests) <= MaxRequests
  /\ lastCall' = watched
  /\ videos' = t.videos
  /\ requests' = t.requests
  /\ calls' = t.calls
  /\ turnCalls' = t.log
  /\ UNCHANGED <<env, props, isSupported, phase, isPiPActive, videoRef, canvasRef,
                  streamRef, listener, curCycle, canvases, streams, stopped,
                  cycles, nCycles, fontCache, pipElement, events>>

\* enter() setting the active flag itself.
EnterOptimistic(playOk) ==
  LET t == enter(CallState, playOk)
  IN /\ Cardinality(t.requests) <= MaxRequests
     /\ isPiPActive' = TRUE
     /\ videos' = t.videos
     /\ requests' = t.requests
     /\ calls' = t.calls
     /\ turnCalls' = t.log
     /\ UNCHANGED <<env, props, isSupported, phase, videoRef, canvasRef,
                    streamRef, listener, curCycle, canvases, streams,
                    stopped, cycles, nCycles, fontCache, pipElement, events,
                    lastCall>>

\* enter() held back until no render cycle is pending.
EnterAfterRender(playOk) ==
  /\ cycles = {}
  /\ CommitCall(enter(CallState, playOk), lastCall)

Enter(playOk) == CommitCall(enter(CallState, playOk), lastCall)

Exit == CommitCall(exit(CallState), lastCall)

Toggle(playOk) == CommitCall(toggle(CallState, playOk), lastCall)

\* toggle() by a caller that notes which way it meant the toggle to go:
\* "toggleOff" if it called while active, "toggleOn" otherwise.
WatchedToggle(playOk) ==
  CommitCall(toggle(CallState, playOk),
             IF isPiPActive THEN "toggleOff" ELSE "toggleOn")

\* ------------------------------------------------ the platform
Event(type, target) == [type |-> type, target |-> target]

\* requestPictureInPicture() of r.video is granted: the element becomes
\* document.pictureInPictureElement (an element already in PiP stays, with no
\* event; another element in PiP leaves).
GrantEnter(r) ==
  /\ r \in requests
  /\ r.kind = "enter"
  /\ requests' = requests \ {r}
  /\ pipElement' = r.video
  /\ events' = events \o
       (IF pipElement = r.video THEN <<>>
        ELSE (IF pipElement # Null THEN <<Event("leave", pipElement)>>
              ELSE <<>>) \o <<Event("enter", r.video)>>)
  /\ Len(events') <= MaxEvents
  /\ calls' = [Held(calls) EXCEPT ![r.call].catch = "fulfilled"]
  /\ turnCalls' = <<>>
  /\ UNCHANGED <<env, props, isSupported, phase, isPiPActive, videoRef, canvasRef,
                  streamRef, listener, curCycle, videos, canvases, streams,
                  stopped, cycles, nCycles, fontCache, lastCall>>

\* The .catch() handler of enter() issuing the refused request again.
RefuseEnterRetrying(r) ==
  /\ r \in requests
  /\ r.kind = "enter"
  /\ requests' = requests
  /\ calls' = [Held(calls) EXCEPT ![r.call].catch = "rejected"]
  /\ turnCalls' = <<Api("console.error", r.call),
                    Api("requestPictureInPicture", r.video)>>
  /\ UNCHANGED <<env, props, isSupported, phase, isPiPActive, videoRef, canvasRef,
                  streamRef, listener, curCycle, videos, canvases, streams,
                  stopped, cycles, nCycles, fontCache, pipElement, events,
                  lastCall>>

\* requestPictureInPicture() rejects: the .catch() handler logs and rethrows.
RefuseEnter(r) ==
  /\ r \in requests
  /\ r.kind = "enter"
  /\ requests' = requests \ {r}
  /\ calls' = [Held(calls) EXCEPT ![r.call].catch = "rejected"]
  /\ turnCalls' = <<Api("console.error", r.call),
                    Api("unhandledrejection", r.call)>>
  /\ UNCHANGED <<env, props, isSupported, phase, isPiPActive, videoRef, canvasRef,
                  streamRef, listener, curCycle, videos, canvases, streams,
                  stopped, cycles, nCycles, fontCache, pipElement, events,
                  lastCall>>

\* document.exitPictureInPicture() fulfils: the window closes and exit()
\* resumes after its await.
CompleteExit(r) ==
  /\ r \in requests
  /\ r.kind = "exit"
  /\ pipElement # Null
  /\ Len(events) < MaxEvents
  /\ pipElement' = Null
  /\ events' = Append(events, Event("leave", pipElement))
  /\ LET t == ExitTail([CallState EXCEPT !.requests = @ \ {r}], r.video,
                       r.call)
     IN /\ videos' = t.videos
        /\ requests' = t.requests
        /\ calls' = t.calls
        /\ turnCalls' = t.log
  /\ UNCHANGED <<env, props, isSupported, phase, isPiPActive, videoRef, canvasRef,
                  streamRef, listener, curCycle, canvases, streams, stopped,
                  cycles, nCycles, fontCache, lastCall>>

\* exit() catching the rejection of document.exitPictureInPicture().
RefuseExitSwallowed(r) ==
  /\ r \in requests
  /\ r.kind = "exit"
  /\ requests' = requests \ {r}
  /\ calls' = [Held(calls) EXCEPT ![r.call].state = "fulfilled"]
  /\ turnCalls' = <<Api("console.error", r.call)>>
  /\ UNCHANGED <<env, props, isSupported, phase, isPiPActive, videoRef, canvasRef,
                 streamRef, listener, curCycle, videos, canvases, streams,
                 stopped, cycles, nCycles, fontCache, pipElement, events,
                 lastCall>>

\* document.exitPictureInPicture() rejects: so does exit(), at its await.
RefuseExit(r) ==
  /\ r \in requests
  /\ r.kind = "exit"
  /\ requests' = requests \ {r}
  /\ calls' = [Held(calls) EXCEPT ![r.call] = [@ EXCEPT !.state = "rejected",
                                                  !.err = "platform"]]
  /\ turnCalls' = <<>>
  /\ UNCHANGED <<env, props, isSupported, phase, isPiPActive, videoRef, canvasRef,
                  streamRef, listener, curCycle, videos, canvases, streams,
                  stopped, cycles, nCycles, fontCache, pipElement, events,
                  lastCall>>

\* The user (or the platform) closes the PiP window.
CloseWindow ==
  /\ pipElement # Null
  /\ Len(events) < MaxEvents
  /\ pipElement' = Null
  /\ events' = Append(events, Event("leave", pipElement))
  /\ turnCalls' = <<>>
  /\ calls' = Held(calls)
  /\ UNCHANGED <<env, props, isSupported, phase, isPiPActive, videoRef, canvasRef,
                  streamRef, listener, curCycle, videos, canvases, streams,
                  stopped, cycles, nCycles, fontCache, requests, lastCall>>

\* A second session of the hook lives in the same document; of it the
\* document sees the relay element it appended.
OtherRelay == -1

\* The platform grants the other session's requestPictureInPicture(): its
\* relay element becomes document.pictureInPictureElement, and an element
\* of this session that was in PiP leaves.  (The entered-PiP event goes to
\* the other element, where this session listens to nothing.)
OtherSessionEnters ==
  /\ pipElement # OtherRelay
  /\ pipElement' = OtherRelay
  /\ events' = IF pipElement # Null
                 THEN Append(events, Event("leave", pipElement)) ELSE events
  /\ Len(events') <= MaxEvents
  /\ turnCalls' = <<>>
  /\ calls' = Held(calls)
  /\ UNCHANGED <<env, props, isSupported, phase, isPiPActive, videoRef, canvasRef,
                  streamRef, listener, curCycle, videos, canvases, streams,
                  stopped, cycles, nCycles, fontCache, requests, lastCall>>

\* ------------------------------------------------ the PiP event handlers
\* What a handler reads and writes, as one record.
HandlerState == [active |-> isPiPActive, videos |-> videos, log |-> <<>>]

Callback(name, f) == IF f = Null THEN <<>> ELSE <<Api(name, f)>>

handleEnterPiP(h, l) ==
  [h EXCEPT !.active = TRUE, !.log = @ \o Callback("onEnter", l.onEnter)]

handleLeavePiP(h, l) ==
  LET h1 == IF videoRef # Null
              THEN [h EXCEPT !.videos[videoRef].paused = TRUE,
                             !.log = @ \o <<Api("pause", videoRef)>>]
              ELSE h
  IN [h1 EXCEPT !.active = FALSE, !.log = @ \o Callback("onLeave", l.onLeave)]

\* The handlers an event of the given type at the given element runs: those
\* the listener effect added to that element, if any.
Handle(h, e) ==
  IF listener.video # e.target THEN h
  ELSE IF e.type = "enter" THEN handleEnterPiP(h, listener)
  ELSE handleLeavePiP(h, listener)

\* The head of the event queue is dispatched at its target.
DispatchEvent ==
  /\ events # <<>>
  /\ events' = Tail(events)
  /\ LET h == Handle(HandlerState, Head(events))
     IN /\ isPiPActive' = h.active
        /\ videos' = h.videos
        /\ turnCalls' = h.log
  /\ calls' = Held(calls)
  /\ UNCHANGED <<env, props, isSupported, phase, videoRef, canvasRef, streamRef,
                  listener, curCycle, canvases, streams, stopped, cycles,
                  nCycles, fontCache, pipElement, requests, lastCall>>

\* ------------------------------------------------ specifications
Options(e, sz, d, a, fo, h1, h2) ==
  [element |-> e, width |-> sz[1], height |-> sz[2], debug |-> d,
   audioDestination |-> a, fontOptions |-> fo, onEnter |-> h1, onLeave |-> h2]

AllOptions ==
  {Options(e, sz, d, a, fo, h1, h2) :
     e \in Scenes, sz \in Sizes, d \in BOOLEAN, a \in AudioSources,
     fo \in FontOptionsSet, h1 \in Handlers, h2 \in Handlers}

NoRun == [op |-> "none"]

InitSession(P, S, D) ==
  /\ props \in P
  /\ isSupported \in S
  /\ devicePixelRatio \in D
  /\ run = NoRun
  /\ objectURLs = {}
  /\ phase = "created"
  /\ isPiPActive = FALSE
  /\ videoRef = Null
  /\ canvasRef = Null
  /\ streamRef = Null
  /\ listener = NoListener
  /\ curCycle = Null
  /\ videos = <<>>
  /\ canvases = <<>>
  /\ streams = <<>>
  /\ stopped = {}
  /\ cycles = {}
  /\ nCycles = 0
  /\ fontCache = [k \in CacheKeys |-> NoFont]
  /\ pipElement = Null
  /\ requests = {}
  /\ events = <<>>
  /\ calls = <<>>
  /\ lastCall = "none"
  /\ turnCalls = <<>>

\* A session on a display of device pixel ratio 1.
InitWith(P, S) == InitSession(P, S, {<<1, 1>>})

RenderAwaits ==
  \/ \E c \in cycles, ok \in BOOLEAN : SatoriSettle(c, ok)
  \/ \E c \in cycles, ok \in BOOLEAN, ctx \in BOOLEAN : DecodeSettle(c, ok, ctx)

FontAwaits ==
  \E c \in cycles, ok \in BOOLEAN : \E i \in c.waiting : ResolveFont(c, i, ok)

Api3 ==
  \/ \E playOk \in BOOLEAN : Enter(playOk)
  \/ Exit
  \/ \E playOk \in BOOLEAN : Toggle(playOk)

Platform ==
  \/ \E r \in requests : GrantEnter(r)
  \/ \E r \in requests : RefuseEnter(r)
  \/ \E r \in requests : CompleteExit(r)
  \/ \E r \in requests : RefuseExit(r)
  \/ CloseWindow
  \/ DispatchEvent

FixedOptions ==
  {p \in AllOptions :
     /\ p.element = 1
     /\ ~p.fontOptions.fontResolver
     /\ p.audioDestination = Null
     /\ <<p.width, p.height>> = <<640, 480>>
     /\ ~p.debug
     /\ p.onEnter = 1
     /\ p.onLeave = 1}

\* The session under PiP traffic, its options as given at first: the caller
\* enters, exits and toggles, the platform grants or refuses, the user closes
\* the window.  The render cycle of the first commit stays pending (an
\* external call that does not return stalls its own cycle only).
InitPiP == InitWith(FixedOptions, BOOLEAN)

NextPiP ==
  \/ Mount
  \/ Unmount
  \/ Api3
  \/ Platform

SpecPiP == InitPiP /\ [][NextPiP]_vars

\* The caller only toggles, once the session is mounted, and the platform
\* does all it is asked.
NextToggle ==
  \/ Mount
  \/ \E playOk \in BOOLEAN : phase = "mounted" /\ WatchedToggle(playOk)
  \/ \E r \in requests : GrantEnter(r)
  \/ \E r \in requests : CompleteExit(r)
  \/ DispatchEvent

SpecToggle == InitPiP /\ [][NextToggle]_vars

\* The session while the caller resizes it or switches debug, which
\* recreates relay element, surface and stream.
RelayOptions ==
  {[props EXCEPT !.width = sz[1], !.height = sz[2], !.debug = d] :
     sz \in Sizes, d \in BOOLEAN}

\* The caller of this specification waits for the platform before it calls
\* again.
OneAtATime == Cardinality(requests') <= MaxRelayRequests

NextRelay ==
  \/ Mount
  \/ \E p \in RelayOptions : Rerender(p)
  \/ \E playOk \in BOOLEAN : Enter(playOk) /\ OneAtATime
  \/ Exit /\ OneAtATime
  \/ \E r \in requests : GrantEnter(r)
  \/ \E r \in requests : CompleteExit(r)
  \/ \E r \in requests : RefuseExit(r)
  \/ CloseWindow
  \/ DispatchEvent

SpecRelay == InitPiP /\ [][NextRelay]_vars

\* The session while the caller changes scene and fonts: render cycles
\* start, overlap and settle in any order, each await succeeding or failing.
RenderOptions ==
  {[props EXCEPT !.element = e, !.fontOptions = fo] :
     e \in Scenes, fo \in FontOptionsSet}

InitRender ==
  InitWith({p \in AllOptions :
              /\ p.audioDestination = Null
              /\ <<p.width, p.height>> = <<640, 480>>
              /\ ~p.debug
              /\ p.onEnter = 1
              /\ p.onLeave = 1},
           {TRUE})

NextRender ==
  \/ Mount
  \/ Unmount
  \/ \E p \in RenderOptions : Rerender(p)
  \/ RenderAwaits
  \/ FontAwaits

SpecRender == InitRender /\ [][NextRender]_vars

\* The session while the caller swaps its audio source, resizes and switches
\* debug; the session starts with source 1.
AudioOptions ==
  {[props EXCEPT !.audioDestination = a, !.width = sz[1], !.height = sz[2],
                 !.debug = d] :
     a \in AudioSources, sz \in Sizes, d \in BOOLEAN}

InitAudio ==
  InitWith({[p EXCEPT !.audioDestination = 1] : p \in FixedOptions}, {TRUE})

NextAudio ==
  \/ Mount
  \/ Unmount
  \/ \E p \in AudioOptions : Rerender(p)
  \/ RenderAwaits

SpecAudio == InitAudio /\ [][NextAudio]_vars

\* The same with fewer cycles, for what is to hold of every step of them.
NextRepaint ==
  \/ Mount
  \/ Unmount
  \/ \E p \in RenderOptions : Rerender(p) /\ nCycles' <= MaxFontCycles
  \/ RenderAwaits
  \/ FontAwaits

SpecRepaint == InitRender /\ [][NextRepaint]_vars

\* The session while the caller changes its font options and clears the
\* font cache; the scene stays.
FontsOptions ==
  {[props EXCEPT !.fontOptions = fo] :
     fo \in FontOptionsSet \cup {FontOptionsUnresolved}}

InitFonts ==
  InitWith({[p EXCEPT !.fontOptions = fo] :
              p \in FixedOptions,
              fo \in FontOptionsSet \cup {FontOptionsUnresolved}},
           {TRUE})

NextFonts ==
  \/ Mount
  \/ Unmount
  \/ \E p \in FontsOptions : Rerender(p) /\ nCycles' <= MaxFontCycles
  \/ RenderAwaits
  \/ FontAwaits
  \/ \E args \in {<<>>} \cup {<<k>> : k \in CacheKeys} : ClearFontCache(args)

SpecFonts == InitFonts /\ [][NextFonts]_vars

\* The session while the caller changes its font options and the
\* application stores fonts of its own in the cache (of weight 700, where
\* those the session handles have weight 400).
StoredFonts == {f \in CacheFonts : f.weight = 700}

NextResolve ==
  \/ Mount
  \/ \E p \in FontsOptions : Rerender(p) /\ nCycles' <= MaxFontCycles
  \/ FontAwaits
  \/ \E f \in StoredFonts : SetCachedFonts(f.name, f)

SpecResolve == InitFonts /\ [][NextResolve]_vars

\* The session while the caller switches between font lists that name the
\* same family "a" without data, in two weights: the resolver's answers for
\* the two are told apart by their weight, and the cache keeps them under
\* the one key "a".
RaceFontOptions ==
  {[fontResolver |-> TRUE, fonts |-> fs] :
     fs \in {<<[name |-> "a", weight |-> 400, data |-> FALSE]>>,
             <<[name |-> "a", weight |-> 700, data |-> FALSE]>>,
             <<[name |-> "a", weight |-> 400, data |-> FALSE],
               [name |-> "a", weight |-> 700, data |-> FALSE]>>,
             <<[name |-> "a", weight |-> 400, data |-> FALSE],
               [name |-> "b", weight |-> 400, data |-> FALSE]>>}}

RaceOptions == {[props EXCEPT !.fontOptions = fo] : fo \in RaceFontOptions}

InitRace ==
  InitWith({[p EXCEPT !.fontOptions = fo] :
              p \in FixedOptions, fo \in RaceFontOptions},
           {TRUE})

NextRace ==
  \/ Mount
  \/ \E p \in RaceOptions : Rerender(p) /\ nCycles' <= MaxFontCycles
  \/ FontAwaits

SpecRace == InitRace /\ [][NextRace]_vars

\* The session beside another session in the same document: each may have
\* its relay element shown in PiP, and this session's caller enters and
\* exits, one request at a time.
NextShared ==
  \/ Mount
  \/ Unmount
  \/ \E playOk \in BOOLEAN : Enter(playOk) /\ OneAtATime
  \/ Exit /\ OneAtATime
  \/ \E r \in requests : GrantEnter(r)
  \/ \E r \in requests : CompleteExit(r)
  \/ \E r \in requests : RefuseExit(r)
  \/ OtherSessionEnters
  \/ CloseWindow
  \/ DispatchEvent

SpecShared == InitPiP /\ [][NextShared]_vars

\* The session where everything may fail: the caller changes its fonts and
\* enters and exits, resolver, rasterizer and decode fail or not, the
\* platform grants or refuses.
RetryFontOptions ==
  { [fontResolver |-> FALSE,
     fonts |-> <<[name |-> "a", weight |-> 400, data |-> TRUE]>>],
    [fontResolver |-> TRUE,
     fonts |-> <<[name |-> "a", weight |-> 400, data |-> FALSE]>>] }

InitRetry ==
  InitWith({[p EXCEPT !.fontOptions = fo] :
              p \in FixedOptions, fo \in RetryFontOptions},
           {TRUE})

NextRetry ==
  \/ Mount
  \/ \E fo \in RetryFontOptions :
       Rerender([props EXCEPT !.fontOptions = fo]) /\ nCycles' <= MaxFontCycles
  \/ RenderAwaits
  \/ FontAwaits
  \/ Enter(TRUE) /\ OneAtATime
  \/ Exit /\ OneAtATime
  \/ \E r \in requests : GrantEnter(r)
  \/ \E r \in requests : RefuseEnter(r)
  \/ \E r \in requests : RefuseExit(r)
  \/ DispatchEvent

SpecRetry == InitRetry /\ [][NextRetry]_vars

\* The session while render cycles are pending: the caller changes the
\* scene and uses enter, exit and toggle; any await of a cycle may stay
\* pending for as long as it likes.
SceneOptions == {[props EXCEPT !.element = e] : e \in Scenes}

NextStall ==
  \/ Mount
  \/ \E p \in SceneOptions : Rerender(p) /\ nCycles' <= MaxStallCycles
  \/ RenderAwaits
  \/ \E playOk \in BOOLEAN : Enter(playOk) /\ OneAtATime
  \/ Exit /\ OneAtATime
  \/ \E playOk \in BOOLEAN : Toggle(playOk)
  \/ \E r \in requests : GrantEnter(r)
  \/ \E r \in requests : CompleteExit(r)
  \/ DispatchEvent

SpecStall == InitWith(FixedOptions, {TRUE}) /\ [][NextStall]_vars

\* The font cache under the calls of an application: set, get and clear in
\* any order, with any key.
NextCache ==
  \/ \E k \in CacheKeys, f \in CacheFonts : SetCachedFonts(k, f)
  \/ \E k \in CacheKeys : GetCachedFonts(k)
  \/ \E args \in {<<>>} \cup {<<k>> : k \in CacheKeys} : ClearFontCache(args)

SpecCache == InitWith(FixedOptions, {TRUE}) /\ [][NextCache]_vars

\* computeMinimalVideoSize called, once, with any two numbers.
NextSize ==
  \E width \in Numbers, height \in Numbers :
    run = NoRun /\ ComputeMinimalVideoSize(width, height)

SpecSize == InitWith(FixedOptions, {TRUE}) /\ [][NextSize]_vars

\* scaleSvgDimensions called, once, with any markup and a scale of 1, 2 or
\* 3/2.
NextScale ==
  \E svg \in Markups, scale \in {<<1, 1>>, <<2, 1>>, <<3, 2>>} :
    run = NoRun /\ ScaleSvgDimensions(svg, scale)

SpecScale == InitWith(FixedOptions, {TRUE}) /\ [][NextScale]_vars

\* The session on displays of several device pixel ratios, 1, 2 and 3/2,
\* while the caller changes scene and size.
Dprs == {<<1, 1>>, <<2, 1>>, <<3, 2>>}

DprSizes == {<<640, 480>>, <<333, 125>>}

DprOptions ==
  {[props EXCEPT !.element = e, !.width = sz[1], !.height = sz[2]] :
     e \in Scenes, sz \in DprSizes}

InitDpr ==
  InitSession({[p EXCEPT !.width = sz[1], !.height = sz[2]] :
                 p \in FixedOptions, sz \in DprSizes},
              {TRUE}, Dprs)

NextDpr ==
  \/ Mount
  \/ Unmount
  \/ \E p \in DprOptions : Rerender(p)
  \/ RenderAwaits

SpecDpr == InitDpr /\ [][NextDpr]_vars

\* The session while the caller replaces its onEnter and onLeave callbacks
\* (or passes none) and resizes, under PiP traffic.
CallbackOptions ==
  {[props EXCEPT !.onEnter = h1, !.onLeave = h2,
                 !.width = sz[1], !.height = sz[2]] :
     h1 \in Handlers, h2 \in Handlers, sz \in Sizes}

NextCallbacks ==
  \/ Mount
  \/ \E p \in CallbackOptions : Rerender(p)
  \/ \E playOk \in BOOLEAN : Enter(playOk) /\ OneAtATime
  \/ Exit /\ OneAtATime
  \/ \E r \in requests : GrantEnter(r)
  \/ \E r \in requests : CompleteExit(r)
  \/ CloseWindow
  \/ DispatchEvent

SpecCallbacks == InitWith(FixedOptions, {TRUE}) /\ [][NextCallbacks]_vars

\* ================================================== properties
\* The promises of the given operation that the step creates.
Created(op) ==
  {k \in DOMAIN calls' \ DOMAIN Held(calls) : calls'[k].op = op}

\* The step dispatches the head of the event queue.
Dispatches == events # <<>> /\ events' = Tail(events)

\* C2: in every state in which the session has a relay element, an
\* entered-PiP event at the current relay element sets active to true and a
\* left-PiP event at it sets active to false, also after the relay element
\* was recreated.
C2_EventsAtRelayDriveActive ==
  [][(Dispatches /\ videoRef # Null /\ Head(events).target = videoRef)
       => isPiPActive' = (Head(events).type = "enter")]_vars

\* C3: the active flag changes only in a step that handles a platform PiP
\* event; no call of enter, exit or toggle and no settling of a platform
\* request changes it.
C3_ActiveOnlyByEvents == [][isPiPActive' # isPiPActive => Dispatches]_vars

\* The platform has opened the window for a request of enter() and the
\* event is still queued: active is still false.
C3_Witness ==
  /\ pipElement # Null
  /\ pipElement = videoRef
  /\ ~isPiPActive
  /\ events # <<>>
  /\ Head(events) = Event("enter", videoRef)

\* C4: toggle() called while inactive opens PiP and called while active
\* closes it: once the platform has done what the toggle asked and the events
\* are handled, PiP is on after a toggle from inactive and off, with no window
\* left open, after a toggle from active.
C4_ToggleToggles ==
  (requests = {} /\ events = <<>> /\ videoRef # Null /\ isSupported)
    => /\ lastCall = "toggleOn" => isPiPActive /\ pipElement = videoRef
       /\ lastCall = "toggleOff" => ~isPiPActive /\ pipElement = Null

\* C5: enter() on an unsupported platform rejects with the unsupported error,
\* calls no platform API and changes nothing of the session.
C5_UnsupportedEnterTouchesNothing ==
  [][(~isSupported /\ Created("enter") # {})
       => /\ \A k \in Created("enter") :
               /\ calls'[k].state = "rejected"
               /\ calls'[k].err = "unsupported"
          /\ turnCalls' = <<>>
          /\ UNCHANGED <<videos, requests, pipElement, events, isPiPActive,
                         videoRef, canvasRef, streamRef, listener, canvases,
                         streams, stopped>>]_vars

\* enter() was called on a mounted session of an unsupported platform.
C5_Witness ==
  /\ ~isSupported
  /\ videoRef # Null
  /\ \E k \in DOMAIN calls :
       calls[k].op = "enter" /\ calls[k].err = "unsupported"

\* C6: an enter() that passes its checks calls play() and then
\* requestPictureInPicture() on the relay element in the turn of the call,
\* the request last, also when toggle() runs exit() first.
C6_EnterCallsPlatformInTurn ==
  [][\A k \in Created("enter") :
       calls'[k].state = "fulfilled"
         => /\ Len(turnCalls') >= 2
            /\ turnCalls'[Len(turnCalls') - 1] = Api("play", videoRef)
            /\ turnCalls'[Len(turnCalls')] =
                 Api("requestPictureInPicture", videoRef)
            /\ [kind |-> "enter", video |-> videoRef, call |-> k]
                 \in requests' \ requests]_vars

\* toggle() called while active: the exit request, then play and the enter
\* request, all in one turn.
C6_Witness ==
  turnCalls = <<Api("exitPictureInPicture", Null), Api("play", videoRef),
                Api("requestPictureInPicture", videoRef)>>

\* C7: when the platform refuses the request of an enter(), the promise
\* that enter() returned rejects.
C7_RefusedEnterRejects ==
  \A k \in DOMAIN calls :
    (calls[k].op = "enter" /\ calls[k].catch = "rejected")
      => calls[k].state = "rejected"

\* The request r of exit() is settled by a refusal: it leaves the pending
\* requests with the window as it was.
ExitRefused(r) ==
  /\ r \in requests \ requests'
  /\ r.kind = "exit"
  /\ pipElement' = pipElement

\* C8: when a window is shown and the platform refuses to close it, the
\* promise that exit() returned rejects with the platform's failure.
C8_RefusedExitRejects ==
  [][\A r \in requests :
       ExitRefused(r) => /\ calls[r.call].state = "pending"
                         /\ calls'[r.call].op = "exit"
                         /\ calls'[r.call].state = "rejected"
                         /\ calls'[r.call].err = "platform"]_vars

\* An exit() was refused while the window stayed open.
C8_Witness ==
  /\ pipElement # Null
  /\ \E k \in DOMAIN calls :
       calls[k].op = "exit" /\ calls[k].state = "rejected"

\* The promise k of an exit() that holds element v settles in this step:
\* at once (no window was shown), or when its platform request settles.
ExitSettles(k, v) ==
  \/ /\ k \in Created("exit")
     /\ calls'[k].state # "pending"
     /\ v = videoRef
  \/ \E r \in requests \ requests' :
       r.kind = "exit" /\ r.call = k /\ r.video = v

\* C9 as claimed: whenever an exit() settles, after the platform request if
\* one was made, the relay element is paused and at position 0.
C9_ExitAlwaysResets ==
  [][\A k \in DOMAIN calls', v \in DOMAIN videos :
       ExitSettles(k, v)
         => videos'[v].paused /\ videos'[v].currentTime = 0]_vars

\* C9 as amended: an exit() that fulfils, at once or after the platform
\* closed the window, has paused the relay element it held when called and
\* set its position to 0; an exit() whose platform request is refused
\* rejects and leaves every element as it was.
C9_FulfilledExitResets ==
  [][\A k \in DOMAIN calls', v \in DOMAIN videos :
       ExitSettles(k, v)
         => IF calls'[k].state = "fulfilled"
              THEN videos'[v].paused /\ videos'[v].currentTime = 0
              ELSE calls'[k].state = "rejected" /\ videos' = videos]_vars

\* An exit() fulfilled after the platform closed the window of an element
\* that had been playing and is no longer the relay element.
C9_Witness ==
  /\ events # <<>>
  /\ \E k \in DOMAIN calls :
       calls[k].op = "exit" /\ calls[k].state = "fulfilled"
  /\ \E v \in DOMAIN videos :
       /\ turnCalls = <<Api("pause", v)>>
       /\ v # videoRef
       /\ videos[v].paused
       /\ videos[v].currentTime = 0

\* C1: once a newer render cycle has painted a surface, no older cycle
\* draws to it: the cycle a surface was last drawn by never goes back.
C1_StaleCycleNeverDraws ==
  [][\A c \in DOMAIN canvases : canvases'[c].by >= canvases[c].by]_vars

AudioOn(stream) == {t \in streams[stream].tracks : t.kind = "audio"}

VideoOn(stream) == {t \in streams[stream].tracks : t.kind = "video"}

\* C10: the capture stream never carries an audio track of a source other
\* than the current one, nor more than one video track; and every commit that
\* changes the audio source (the first commit included) leaves the stream
\* with exactly the tracks of the new source, none if there is none.
C10_AudioTracksFollowSource ==
  /\ [](streamRef # Null
          => /\ AudioOn(streamRef) \subseteq
                  AudioTracksOf(props.audioDestination)
             /\ Cardinality(VideoOn(streamRef)) <= 1)
  /\ [][((props'.audioDestination # props.audioDestination
            \/ (phase = "created" /\ phase' = "mounted"))
          /\ streamRef' # Null)
         => streams'[streamRef'].tracks =
              {VideoTrack(streamRef')}
                \cup AudioTracksOf(props'.audioDestination)]_vars

\* Source 2 is attached to the stream of a session that started with source
\* 1, on the stream the session started with.
C10_Witness ==
  /\ streamRef = 1
  /\ props.audioDestination = 2
  /\ AudioOn(streamRef) = AudioTracksOf(2)

\* The render cycle c ends in this step with a failure that render() caught
\* and logged.
FailsCaught(c) ==
  /\ c \in cycles \ cycles'
  /\ \E i \in DOMAIN turnCalls' : turnCalls'[i] = Api("console.error", c.n)

\* C11: a render cycle that fails (rasterizer, decode or draw) is caught and
\* leaves its surface showing the content of the last successful render.
C11_FailedRenderKeepsFrame ==
  [][\A c \in cycles :
       FailsCaught(c)
         => canvases'[c.canvas].scene = canvases'[c.canvas].good]_vars

\* The font resolver of cycle c rejects in this step, the first of the cycle's
\* resolver calls to do so.
FontFails(c) ==
  /\ c \in cycles
  /\ c.pc = "fonts"
  /\ turnCalls' = <<Api("unhandledrejection", c.n)>>

\* C12: a failure of the font resolver aborts the cycle it occurred in and
\* nothing else: the renderer is not invoked in that cycle, then or later,
\* every surface keeps its frame, the cache stores nothing, the other cycles
\* and all the session state that enter, exit and toggle use are as before.
C12_FontFailureAbortsCycleOnly ==
  [][\A c \in cycles :
       /\ FontFails(c)
            => /\ canvases' = canvases
               /\ fontCache' = fontCache
               /\ {d \in cycles' : d.n # c.n} = cycles \ {c}
               /\ \A d \in cycles' : d.n = c.n => d.pc = "aborted"
               /\ UNCHANGED <<phase, isSupported, isPiPActive, videoRef,
                              canvasRef, streamRef, listener, videos, streams,
                              stopped, pipElement, requests, events>>
       /\ c.pc = "aborted"
            => \A d \in cycles' :
                 d.n = c.n => d.pc = "aborted" /\ d.satori = <<>>]_vars

\* The resolver of a later cycle has just failed: the surface shows the frame
\* an earlier cycle drew and the cache holds nothing for the font's name.
C12_Witness ==
  /\ \E n \in 2..MaxFontCycles : turnCalls = <<Api("unhandledrejection", n)>>
  /\ canvasRef # Null
  /\ canvases[canvasRef].scene # Null
  /\ canvases[canvasRef].scene = canvases[canvasRef].good
  /\ fontCache["a"] = NoFont

\* C13: no failure inside a render cycle leaves the cycle as an unhandled
\* rejection: no step of a render cycle raises one.
C13_RenderFailuresCaught ==
  \A i \in DOMAIN turnCalls : turnCalls[i].api # "unhandledrejection"

C15_CacheIsKeyValueMap ==
  [][/\ run'.op = "setCachedFonts"
          => \A k \in CacheKeys :
               getCachedFonts(fontCache', k) =
                 IF k = run'.args[1] THEN run'.args[2]
                 ELSE getCachedFonts(fontCache, k)
     /\ (run'.op = "clearFontCache" /\ run'.args # <<>>)
          => \A k \in CacheKeys :
               getCachedFonts(fontCache', k) =
                 IF k = run'.args[1] THEN NoFont
                 ELSE getCachedFonts(fontCache, k)
     /\ (run'.op = "clearFontCache" /\ run'.args = <<>>)
          => \A k \in CacheKeys : getCachedFonts(fontCache', k) = NoFont
     /\ run'.op = "getCachedFonts"
          => /\ run'.result = fontCache[run'.args[1]]
             /\ fontCache' = fontCache]_vars

\* C16: clear(k), for every key k, the empty string included, removes the
\* entry of k and leaves every other entry as it was (the whole cache if k is
\* absent); clear() without key removes every entry.
C16_ClearRemovesOnlyItsKey ==
  [][run'.op = "clearFontCache"
       => IF run'.args = <<>>
            THEN \A k \in CacheKeys : fontCache'[k] = NoFont
            ELSE /\ fontCache'[run'.args[1]] = NoFont
                 /\ \A k \in CacheKeys \ {run'.args[1]} :
                      fontCache'[k] = fontCache[k]]_vars

\* The render cycles that start in this step.
Started == {c \in cycles' : c.n > nCycles}

\* C17: a cycle calls the resolver for a font only if the cache holds nothing
\* under the font's name when the cycle starts, so that a font once stored is
\* reused by every later cycle; and an entry stays as stored until a call of
\* clearFontCache removes it.
C17_StoredFontIsReused ==
  [][/\ \A c \in Started :
          \A i \in c.waiting : fontCache[c.entries[i].name] = NoFont
     /\ \A k \in CacheKeys :
          (fontCache[k] # NoFont /\ fontCache'[k] # fontCache[k])
            => /\ run'.op = "clearFontCache"
               /\ fontCache' = clearFontCache(fontCache, run'.args)]_vars

\* The second cycle has an entry "a" without data and went to the rasterizer
\* with the cached font, while the first still waits for the resolver of "b".
C17_Witness ==
  /\ fontCache["a"] # NoFont
  /\ \E c \in cycles : c.n = 1 /\ c.pc = "fonts" /\ c.waiting = {2}
  /\ \E c \in cycles :
       /\ c.n = 2
       /\ c.pc = "satori"
       /\ ~c.entries[1].data
       /\ c.fonts[1] = fontCache["a"]

\* The greatest common divisor of two positive integers.
GCD(x, y) ==
  CHOOSE g \in 1..x : /\ x % g = 0 /\ y % g = 0
                      /\ \A f \in 1..x : (x % f = 0 /\ y % f = 0) => f <= g

\* The numerator of the finite number x over 10^places.
Scaled(x, places) == x.m * Pow10(places - x.d)

FinitePositive(x) == x.k = "num" /\ x.s = 1 /\ x.m > 0

\* C18: for finite positive w and h, computeMinimalVideoSize(w, h) returns
\* positive integers in lowest terms whose ratio is w : h.
C18_MinimalSizeIsLowestTerms ==
  (/\ run.op = "computeMinimalVideoSize"
   /\ FinitePositive(run.args[1])
   /\ FinitePositive(run.args[2]))
    => LET r == run.result
           places == MaxPlaces
       IN /\ r.returns
          /\ FinitePositive(r.width) /\ r.width.d = 0
          /\ FinitePositive(r.height) /\ r.height.d = 0
          /\ GCD(r.width.m, r.height.m) = 1
          /\ r.width.m * Scaled(run.args[2], places) =
               r.height.m * Scaled(run.args[1], places)

\* C19: when either argument is zero, negative, NaN or infinite,
\* computeMinimalVideoSize returns {width: 1, height: 1}.
C19_InvalidSizeGivesOneByOne ==
  (/\ run.op = "computeMinimalVideoSize"
   /\ \E i \in 1..2 : ~FinitePositive(run.args[i]))
    => run.result = Size(Whole(1, 1), Whole(1, 1))

\* The call had a valid width and a height of zero.
C19_Witness ==
  /\ run.op = "computeMinimalVideoSize"
  /\ FinitePositive(run.args[1])
  /\ run.args[2] = Whole(1, 0)
  /\ run.result = Size(Whole(1, 1), Whole(1, 1))

\* pixels is Math.round(logical * dpr): the integer nearest to the product,
\* the upper one of two equally near.
IsRounded(pixels, logical, dpr) ==
  /\ 2 * dpr[2] * pixels - dpr[2] <= 2 * dpr[1] * logical
  /\ 2 * dpr[1] * logical < 2 * dpr[2] * pixels + dpr[2]

\* C20: once renderToCanvas has invoked the rasterizer for a cycle, the
\* rasterizer was given the cycle's logical width and height and the surface
\* has round(width * dpr) by round(height * dpr) pixels: the logical
\* dimensions at dpr 1, twice them at dpr 2.
C20_SurfaceScaledRasterizerLogical ==
  \A c \in cycles :
    c.pc \in {"satori", "decode"}
      => LET canvas == canvases[c.canvas] IN
         /\ c.satori = <<c.width, c.height>>
         /\ IsRounded(canvas.width, c.width, devicePixelRatio)
         /\ IsRounded(canvas.height, c.height, devicePixelRatio)
         /\ devicePixelRatio = <<1, 1>>
              => canvas.width = c.width /\ canvas.height = c.height
         /\ devicePixelRatio = <<2, 1>>
              => canvas.width = 2 * c.width /\ canvas.height = 2 * c.height

\* At dpr 3/2 a cycle of logical size 333 by 125 is at the rasterizer and
\* its surface has 500 by 188 pixels.
C20_Witness ==
  /\ devicePixelRatio = <<3, 2>>
  /\ \E c \in cycles :
       /\ c.pc = "satori"
       /\ c.satori = <<333, 125>>
       /\ canvases[c.canvas].width = 500
       /\ canvases[c.canvas].height = 188

\* C21: every object URL that svgToImage creates is revoked exactly once, in
\* the step in which the decode settles, whether it succeeds or fails, and
\* before anything is done with svgToImage's result (the draw, or the
\* logging of the failure that reached render()); the URLs not revoked are
\* those of the cycles whose decode is pending.
C21_ObjectURLReleasedOnce ==
  /\ [](objectURLs = {c.n : c \in {d \in cycles : d.pc = "decode"}})
  /\ [][\A n \in objectURLs \ objectURLs' :
          /\ turnCalls'[1] = Api("revokeObjectURL", n)
          /\ \A i \in DOMAIN turnCalls' :
               turnCalls'[i].api = "revokeObjectURL" => i = 1
          /\ Len(turnCalls') >= 2
          /\ turnCalls'[2].api \in {"drawImage", "console.error"}]_vars
  /\ [][\A c \in cycles :
          (c.pc = "decode" /\ c.n \notin {d.n : d \in cycles'})
            => /\ c.n \in objectURLs \ objectURLs'
               /\ Api("drawImage", c.canvas) \in
                    {turnCalls'[i] : i \in DOMAIN turnCalls'}
                  \/ Api("console.error", c.n) \in
                       {turnCalls'[i] : i \in DOMAIN turnCalls'}]_vars

\* The decode of a cycle has just failed: its URL was revoked, the failure
\* logged, and no URL is live.
C21_Witness ==
  /\ \E n \in 1..MaxCycles :
       turnCalls = <<Api("revokeObjectURL", n), Api("console.error", n)>>
  /\ objectURLs = {}

\* C22: after the session is torn down, no relay element and no surface the
\* session created is attached to the document, every track of every capture
\* stream it derived is stopped, and the three refs are null; the teardown
\* run again in that state changes nothing, and no run of it raises.
C22_TeardownReleasesAll ==
  /\ ~TeardownRaises(Cur)
  /\ phase = "unmounted"
       => /\ videoRef = Null /\ canvasRef = Null /\ streamRef = Null
          /\ \A v \in DOMAIN videos : ~videos[v].attached
          /\ \A c \in DOMAIN canvases : ~canvases[c].attached
          /\ \A m \in DOMAIN streams : streams[m].tracks \subseteq stopped
          /\ InitCleanup(Cur) = Cur

\* A session that was resized and carried an audio track is torn down: two
\* generations of elements are detached, the audio track is stopped.
C22_Witness ==
  /\ phase = "unmounted"
  /\ Cardinality(DOMAIN videos) = 2
  /\ \E t \in stopped : t.kind = "audio"

\* The checks of enter() pass in the current state.
EnterPasses == isSupported /\ videoRef # Null /\ canvasRef # Null

\* The names of the platform calls the step makes, in order.
TurnApis == [i \in DOMAIN turnCalls' |-> turnCalls'[i].api]

\* The platform requests of the given kind that the step issues.
Issued(kind) == {r \in requests' \ requests : r.kind = kind}

\* C23 as claimed, for a mounted session: a toggle() while active issues the
\* platform exit request and, in the same turn, the platform enter request,
\* so that both are pending together; a toggle() while inactive calls only
\* enter() and issues no exit request.
C23_ToggleActiveIssuesBoth ==
  [][(Created("toggle") # {} /\ phase = "mounted")
       => IF isPiPActive
            THEN /\ Cardinality(Issued("exit")) = 1
                 /\ Cardinality(Issued("enter")) = 1
                 /\ TurnApis = <<"exitPictureInPicture", "play",
                                 "requestPictureInPicture">>
            ELSE /\ Created("exit") = {}
                 /\ Issued("exit") = {}
                 /\ Cardinality(Created("enter")) = 1]_vars

\* C23 as amended: a toggle() while active calls exit() without waiting for
\* it and then, in the same turn, enter(); the exit request is issued if a
\* window is shown (otherwise exit() pauses the relay element at once), the
\* enter request if enter() passes its checks, and when both are issued
\* both are pending together, the exit request issued first.  A toggle()
\* while inactive calls only enter() and issues no exit request.
C23_ToggleFiresExitThenEnter ==
  [][Created("toggle") # {}
       => /\ Cardinality(Created("enter")) = 1
          /\ \A k \in Created("toggle") : calls'[k].state = "fulfilled"
          /\ Cardinality(Issued("enter")) = IF EnterPasses THEN 1 ELSE 0
          /\ IF isPiPActive
               THEN /\ Cardinality(Created("exit")) = 1
                    /\ \A k \in Created("exit"), j \in Created("enter") : k < j
                    /\ Cardinality(Issued("exit")) =
                         IF pipElement # Null THEN 1 ELSE 0
                    /\ (pipElement # Null /\ EnterPasses)
                         => /\ TurnApis = <<"exitPictureInPicture", "play",
                                            "requestPictureInPicture">>
                            /\ \A k \in Created("exit") :
                                 calls'[k].state = "pending"
                    /\ (pipElement = Null /\ EnterPasses)
                         => TurnApis = <<"pause", "play",
                                         "requestPictureInPicture">>
               ELSE /\ Created("exit") = {}
                    /\ Issued("exit") = {}
                    /\ "exitPictureInPicture" \notin
                         {TurnApis[i] : i \in DOMAIN TurnApis}]_vars

\* A toggle() was called while active with the window shown: the exit
\* request and the enter request are pending together.
C23_Witness ==
  /\ isPiPActive
  /\ pipElement = videoRef
  /\ \E k \in DOMAIN calls : calls[k].op = "toggle"
  /\ {r.kind : r \in requests} = {"exit", "enter"}
  /\ Len(turnCalls) = 3

\* The step handles a platform event of the given type at the element the
\* session listens on.
Handles(type) ==
  /\ Dispatches
  /\ Head(events).type = type
  /\ Head(events).target = listener.video

\* C24: the session is Uninitialized, then Ready, Active, Ready again and
\* Torn Down.  Active is false until the first commit; it becomes true only
\* in a mounted session that handles an entered-PiP event and false again
\* only when a left-PiP event is handled; and whenever active is true the
\* session has its relay element and its surface.
C24_SessionStateMachine ==
  /\ [](phase = "created" => ~isPiPActive)
  /\ [][(~isPiPActive /\ isPiPActive')
          => phase = "mounted" /\ Handles("enter")]_vars
  /\ [][(isPiPActive /\ ~isPiPActive') => Handles("leave")]_vars
  /\ [](isPiPActive => videoRef # Null /\ canvasRef # Null)

\* The callbacks of the caller that the step invokes, in order.
CallbacksInvoked ==
  SelectSeq(turnCalls', LAMBDA x : x.api \in {"onEnter", "onLeave"})

\* C25: in a mounted session, each PiP event at the relay element invokes
\* the callback of the latest render exactly once, onEnter for an entered-PiP
\* and onLeave for a left-PiP event (none if the caller supplies none),
\* however often the callbacks were replaced; and a left-PiP event pauses
\* the relay element.
C25_EventInvokesLatestCallback ==
  [][(Dispatches /\ phase = "mounted" /\ Head(events).target = videoRef)
       => /\ CallbacksInvoked =
               IF Head(events).type = "enter"
                 THEN Callback("onEnter", props.onEnter)
                 ELSE Callback("onLeave", props.onLeave)
          /\ Head(events).type = "leave"
               => /\ videos'[videoRef].paused
                  /\ Api("pause", videoRef) \in
                       {turnCalls'[i] : i \in DOMAIN turnCalls'}]_vars

\* C26: on a supported platform, an enter() called while the relay element
\* or the surface is missing (before the first commit, after the teardown)
\* rejects with the initialization error, calls neither play() nor
\* requestPictureInPicture(), issues no enter request and leaves every
\* element as it was.
C26_EnterBeforeInitFails ==
  [][(isSupported /\ (videoRef = Null \/ canvasRef = Null)
        /\ Created("enter") # {})
       => /\ \A k \in Created("enter") :
               /\ calls'[k].state = "rejected"
               /\ calls'[k].err = "init"
          /\ \A i \in DOMAIN turnCalls' :
               turnCalls'[i].api \notin {"play", "requestPictureInPicture"}
          /\ Issued("enter") = {}
          /\ videos' = videos]_vars

\* enter() was called on a supported platform after the teardown and
\* rejected with the initialization error.
C26_Witness ==
  /\ isSupported
  /\ phase = "unmounted"
  /\ videoRef = Null
  /\ turnCalls = <<>>
  /\ \E k \in DOMAIN calls :
       /\ calls[k].op = "enter"
       /\ calls[k].state = "rejected"
       /\ calls[k].err = "init"

\* C27: a capture stream is derived from each surface once and is the source
\* of the relay element; a commit that changes scene or fonts, and not the
\* size, starts a cycle on the existing surface and leaves the refs, every
\* stream and the relay element's source as they were, creating no element;
\* so does the draw of a cycle, which paints a surface that has its stream.
C27_StreamCapturedOnce ==
  /\ [](\A m1, m2 \in DOMAIN streams :
          streams[m1].canvas = streams[m2].canvas => m1 = m2)
  /\ [](phase = "mounted"
          => /\ streamRef # Null
             /\ streams[streamRef].canvas = canvasRef
             /\ videos[videoRef].srcObject = streamRef)
  /\ [][(RenderDeps(props') # RenderDeps(props)
            /\ InitDeps(props') = InitDeps(props))
         => /\ UNCHANGED <<videoRef, canvasRef, streamRef, streams, videos>>
            /\ DOMAIN canvases' = DOMAIN canvases
            /\ Started # {}
            /\ \A c \in Started : c.canvas = canvasRef]_vars
  /\ [][\A c \in DOMAIN canvases :
          canvases'[c].by # canvases[c].by
            => /\ \E m \in DOMAIN streams : streams[m].canvas = c
               /\ UNCHANGED <<videoRef, canvasRef, streamRef, streams,
                              videos>>]_vars

\* The cycle of a re-render with another scene and other fonts has painted
\* the surface of the first commit, whose stream is still the only one and
\* the relay element's source.
C27_Witness ==
  /\ phase = "mounted"
  /\ canvasRef = 1
  /\ canvases[1].by = 2
  /\ canvases[1].scene = props.element
  /\ DOMAIN streams = {1}
  /\ streamRef = 1
  /\ videos[videoRef].srcObject = 1

\* The positions in the step's platform calls of the calls of the given name.
Positions(name) == {i \in DOMAIN turnCalls' : turnCalls'[i].api = name}

\* C28: a render cycle resolves its fonts, renders, then requests a frame.
\* A cycle is at the rasterizer or the decode only with every font of it
\* resolved; a frame is requested only right after a draw, in the step in
\* which the cycle's draw succeeded, and is requested then if the session
\* has its stream; a step in which a cycle fails requests no frame.
C28_FontsThenRenderThenFrame ==
  /\ [](\A c \in cycles :
          c.pc \in {"satori", "decode"}
            => /\ c.waiting = {}
               /\ \A i \in DOMAIN c.entries : c.fonts[i] # NoFont)
  /\ [][/\ \A i \in Positions("requestFrame") :
             /\ i > 1
             /\ turnCalls'[i - 1].api = "drawImage"
             /\ \E c \in cycles :
                  /\ c.pc = "decode"
                  /\ c.n \notin {d.n : d \in cycles'}
                  /\ turnCalls'[i - 1] = Api("drawImage", c.canvas)
                  /\ canvases'[c.canvas].by = c.n
        /\ (Positions("drawImage") # {} /\ streamRef # Null)
             => Positions("requestFrame") # {}
        /\ (Positions("console.error") # {}
              \/ Positions("unhandledrejection") # {})
             => Positions("requestFrame") = {}]_vars

\* A cycle whose two fonts both came from the resolver has drawn and
\* requested its frame.
C28_Witness ==
  /\ props.fontOptions = FontOptionsUnresolved
  /\ canvasRef # Null
  /\ canvases[canvasRef].by = nCycles
  /\ turnCalls = <<Api("revokeObjectURL", nCycles),
                   Api("drawImage", canvasRef),
                   Api("requestFrame", streamRef)>>
  /\ fontCache["a"] # NoFont
  /\ fontCache["b"] # NoFont

\* Entry i of cycle c is resolved in this step: it was waiting for the
\* resolver and is no longer, the cycle not aborted by it.
Resolves(c, i) ==
  /\ c \in cycles
  /\ i \in c.waiting
  /\ \E d \in cycles' : d.n = c.n /\ i \notin d.waiting /\ d.fonts[i] # NoFont

\* C29: a cycle that starts with a resolver calls it for exactly the entries
\* that carry no data and whose name the cache has no font for at that time;
\* an entry with data is used as it is, whatever the cache holds, and a
\* cached font is used without the resolver.  A resolution that succeeds
\* stores its font under the entry's name and changes no other key.  A
\* cycle that starts without resolver uses the fonts supplied, whatever the
\* cache holds, and leaves the cache as it is.
C29_ResolverOnlyOnCacheMiss ==
  /\ [][\A c \in Started :
          LET fo == props'.fontOptions IN
          /\ c.entries = fo.fonts
          /\ \A i \in DOMAIN c.entries :
               LET entry == c.entries[i] IN
               /\ i \in c.waiting
                    <=> /\ fo.fontResolver
                        /\ ~entry.data
                        /\ fontCache[entry.name] = NoFont
               /\ (~fo.fontResolver \/ entry.data)
                    => c.fonts[i] = FontOf(entry)
               /\ (fo.fontResolver /\ ~entry.data
                     /\ fontCache[entry.name] # NoFont)
                    => c.fonts[i] = fontCache[entry.name]
          /\ fontCache' = fontCache]_vars
  /\ [][\A c \in cycles : \A i \in c.waiting :
          Resolves(c, i)
            => /\ fontCache'[c.entries[i].name] = FontOf(c.entries[i])
               /\ \A k \in CacheKeys \ {c.entries[i].name} :
                    fontCache'[k] = fontCache[k]]_vars

\* A cycle started with a resolver while the application's font was cached
\* under "a": it uses that font for its entry "a" without data and its own
\* entry "b", which has data.
C29_Witness ==
  \E c \in cycles :
    /\ c.pc = "satori"
    /\ Len(c.entries) = 2
    /\ ~c.entries[1].data
    /\ c.entries[2].data
    /\ c.fonts[1] = [name |-> "a", weight |-> 700]
    /\ c.fonts[2] = [name |-> "b", weight |-> 400]
    /\ fontCache["b"] = [name |-> "b", weight |-> 700]

\* The resolutions in flight for the given key: the waiting entries of that
\* name, by cycle.
InFlight(key) ==
  UNION {{<<c.n, i>> : i \in {j \in c.waiting : c.entries[j].name = key}} :
           c \in cycles}

\* C30: resolutions of one key that are in flight together (in overlapping
\* cycles, or for two entries of one list) have each called the resolver.
\* When one of them completes, the cache either stays as it is (the resolver
\* failed) or takes the result under the key in place of what an earlier
\* one put there, every other key staying as it was; a resolution seen to
\* succeed does write.  So the cache holds for the key one font, the result
\* of the resolution that completed last.
C30_LastResolutionWins ==
  /\ [](\A key \in CacheKeys :
          fontCache[key] # NoFont => fontCache[key].name = key)
  /\ [][\A c \in cycles : \A i \in c.waiting :
          LET key == c.entries[i].name
              written == [fontCache EXCEPT ![key] = FontOf(c.entries[i])]
          IN /\ <<c.n, i>> \notin InFlight(key)'
                  => fontCache' \in {fontCache, written}
             /\ Resolves(c, i) => fontCache' = written]_vars
  /\ [][fontCache' # fontCache
          => \E key \in FontNames : InFlight(key)' # InFlight(key)]_vars

\* Two overlapping cycles both called the resolver for "a" and both got
\* their answer; the older cycle's came last and is what the cache holds.
C30_Witness ==
  /\ fontCache["a"] = [name |-> "a", weight |-> 400]
  /\ fontCache["b"] = NoFont
  /\ \E c \in cycles :
       /\ c.n = 1
       /\ c.waiting = {}
       /\ c.fonts = <<[name |-> "a", weight |-> 400]>>
  /\ \E c \in cycles :
       /\ c.n = 2
       /\ c.waiting = {}
       /\ c.fonts = <<[name |-> "a", weight |-> 700]>>

\* Where the render cycle of number n is among the cycles cs: its pc, or
\* "done" if it is not (or not yet) among them.
PcOf(cs, n) ==
  IF \E c \in cs : c.n = n THEN (CHOOSE c \in cs : c.n = n).pc ELSE "done"

\* C31: renderToCanvas rasterizes, decodes, draws, in that order and each
\* once.  A cycle moves from the rasterizer to the decode or ends there, and
\* from the decode it ends; while it is under way its scene, dimensions and
\* fonts, and what the rasterizer was given, stay as they were.  A cycle
\* that ends with a drawImage call has drawn its scene, with one call; a
\* cycle that ends with a failure (logged by render()) has drawn nothing,
\* and if it failed at the rasterizer no decode was started.
C31_RasterizeDecodeDraw ==
  /\ [][\A c \in cycles :
          c.pc \in {"satori", "decode"}
            => /\ <<c.pc, PcOf(cycles', c.n)>> \in
                    {<<"satori", "satori">>, <<"satori", "decode">>,
                     <<"satori", "done">>, <<"decode", "decode">>,
                     <<"decode", "done">>}
               /\ \A d \in cycles' :
                    d.n = c.n
                      => /\ <<d.scene, d.width, d.height, d.fonts, d.satori>> =
                              <<c.scene, c.width, c.height, c.fonts, c.satori>>
                         /\ c.satori = <<c.width, c.height>>
               /\ PcOf(cycles', c.n) = "done"
                    => IF Positions("console.error") # {}
                         THEN /\ canvases' = canvases
                              /\ Positions("drawImage") = {}
                              /\ Positions("requestFrame") = {}
                              /\ c.pc = "satori"
                                   => /\ objectURLs' = objectURLs
                                      /\ Positions("createObjectURL") = {}
                         ELSE /\ c.pc = "decode"
                              /\ Cardinality(Positions("drawImage")) = 1
                              /\ canvases'[c.canvas].scene = c.scene
                              /\ canvases'[c.canvas].by = c.n]_vars
  /\ [][\A c \in Started :
          c.pc = "satori" => c.satori = <<props'.width, props'.height>>
                              /\ c.scene = props'.element]_vars

\* The rasterizer failed in the second cycle: the failure is logged, no
\* decode was started, and the surface shows no scene.
C31_Witness ==
  /\ turnCalls = <<Api("console.error", 2)>>
  /\ objectURLs = {}
  /\ canvasRef # Null
  /\ canvases[canvasRef].by = 1
  /\ canvases[canvasRef].scene = Null

\* The markup with the outer element's width and height, where they are
\* numbers, multiplied by the scale and rounded, and nothing else changed.
OuterScaled(svg, scale) ==
  [svg EXCEPT ![1] =
     [i \in DOMAIN @ |->
        IF /\ @[i].prefix = ""
           /\ @[i].base \in {"width", "height"}
           /\ @[i].value # NotNumber
          THEN [@[i] EXCEPT !.value = Round(@ * scale[1], scale[2])]
          ELSE @[i]]]

\* C32: scaleSvgDimensions returns the markup with the outer svg element's
\* numeric width and height each multiplied by the scale and rounded, and
\* every other attribute and element as it was; the markup itself at
\* scale 1 or when the outer element has no such attribute.
C32_OnlyOuterDimensionsScaled ==
  run.op = "scaleSvgDimensions"
    => run.result = OuterScaled(run.args[1], run.args[2])

\* C33: a cycle whose decode settles either draws its image at the origin
\* in the width and height the surface has at that time, which the draw
\* leaves as they are, or, the surface giving no 2D context (or the decode
\* having failed), fails with an error that render() logs and leaves every
\* surface as it was.
C33_DrawAtOriginInSurfaceSize ==
  [][\A c \in cycles :
       (c.pc = "decode" /\ PcOf(cycles', c.n) = "done")
         => LET before == canvases[c.canvas]
                after == canvases'[c.canvas]
            IN IF Positions("drawImage") # {}
                 THEN /\ after.drawn = <<0, 0, before.width, before.height>>
                      /\ after.width = before.width
                      /\ after.height = before.height
                      /\ after.scene = c.scene
                      /\ Positions("console.error") = {}
                 ELSE /\ canvases' = canvases
                      /\ Positions("console.error") # {}]_vars

\* At device pixel ratio 2 a cycle of logical size 640 by 480 has drawn its
\* image in the surface's 1280 by 960 pixels.
C33_Witness ==
  /\ devicePixelRatio = <<2, 1>>
  /\ canvasRef # Null
  /\ canvases[canvasRef].scene # Null
  /\ canvases[canvasRef].drawn = <<0, 0, 1280, 960>>
  /\ Api("drawImage", canvasRef) \in {turnCalls[i] : i \in DOMAIN turnCalls}

\* C34: nothing is retried.  A render cycle starts only at the mount or at
\* a commit that changed the scene, the width, the height, the fonts or the
\* resolver; a cycle calls the resolver only as it starts and the
\* rasterizer at most once, and after a failure of either it calls
\* neither; a step that reports a failure starts no cycle and issues no
\* platform request, and a refused enter or exit request is gone, the
\* platform being asked again only by a new call of the caller.
C34_NoAutomaticRetries ==
  [][LET Refused ==
           {r \in requests :
              /\ r.call \in DOMAIN calls /\ r.call \in DOMAIN calls'
              /\ \/ /\ calls[r.call].catch = "pending"
                    /\ calls'[r.call].catch = "rejected"
                 \/ /\ calls[r.call].state = "pending"
                    /\ calls'[r.call].state = "rejected"}
         Rasterized ==
           {d.n : d \in {e \in cycles' : e.pc = "satori"}}
             \ {c.n : c \in {e \in cycles : e.pc = "satori"}}
         Resolving(cs) == UNION {{<<c.n, i>> : i \in c.waiting} : c \in cs}
     IN /\ nCycles' # nCycles
             => /\ nCycles' = nCycles + 1
                /\ phase = "created" \/ RenderDeps(props') # RenderDeps(props)
        /\ \A d \in cycles' : d.n <= nCycles
             => \E c \in cycles :
                  /\ c.n = d.n
                  /\ d.waiting \subseteq c.waiting
                  /\ c.pc = "aborted" => d.pc = "aborted"
                  /\ d.pc = "fonts" => c.pc = "fonts"
                  /\ d.pc = "satori" => c.pc \in {"fonts", "satori"}
        /\ \A n \in Rasterized :
             /\ Positions("unhandledrejection") = {}
             /\ Positions("console.error") = {}
             /\ n <= nCycles => PcOf(cycles, n) = "fonts"
        /\ Positions("unhandledrejection") \cup Positions("console.error") # {}
             => /\ nCycles' = nCycles
                /\ Resolving(cycles') \subseteq Resolving(cycles)
                /\ requests' \subseteq requests
        /\ \A r \in Refused : requests' = requests \ {r}
        /\ requests' \ requests # {}
             => Created("enter") \cup Created("exit") # {}]_vars

\* The rasterizer failed in the only cycle there was and the platform
\* refused the only request: no cycle and no request is pending.
C34_Witness ==
  /\ phase = "mounted"
  /\ nCycles = 1
  /\ cycles = {}
  /\ canvases[canvasRef].scene = Null
  /\ requests = {}
  /\ turnCalls = <<Api("console.error", 1), Api("unhandledrejection", 1)>>

\* C35: a commit that leaves the session with a new surface (the first, or
\* one whose width, height or debug changed) starts a render cycle of the
\* current scene against that surface.
C35_NewSurfaceIsRendered ==
  [][(canvasRef' # canvasRef /\ canvasRef' # Null)
       => \E c \in cycles' : /\ c.n > nCycles
                             /\ c.canvas = canvasRef'
                             /\ c.scene = props'.element]_vars

\* C36: once the effects have run, the current capture stream carries the
\* audio tracks of the audio source the caller supplies, if any.
C36_StreamCarriesSuppliedAudio ==
  (phase = "mounted" /\ streamRef # Null)
    => AudioTracksOf(props.audioDestination) \subseteq
         streams[streamRef].tracks

\* C37: the only tracks the session ever stops are the video tracks of its
\* own capture streams; the tracks of the caller's audio sources stay live.
C37_AudioTracksStayLive ==
  \A t \in stopped : /\ t.kind = "video"
                     /\ t.id \in DOMAIN streams

\* C38: exit() asks the platform to leave PiP only when the element shown
\* in PiP is the session's own relay element, never when it is the relay
\* element of another session.
C38_ExitClosesOwnWindowOnly ==
  [][Issued("exit") # {} => (videoRef # Null /\ pipElement = videoRef)]_vars

\* C39: the promise toggle() returns is fulfilled, with no error, whatever
\* becomes of the enter() and the exit() it fires: their rejections stay
\* with their own promises.
C39_ToggleAlwaysFulfils ==
  \A k \in DOMAIN calls :
    calls[k].op = "toggle"
      => /\ calls[k].state = "fulfilled"
         /\ calls[k].err = "none"
         /\ calls[k].catch = "none"

\* toggle() was called on a mounted session whose platform has no PiP: the
\* enter() it fired is rejected, its own promise is held fulfilled.
C39_Witness ==
  /\ phase = "mounted"
  /\ ~isSupported
  /\ \E k \in DOMAIN calls : calls[k].op = "toggle"
  /\ \E k \in DOMAIN calls :
       /\ calls[k].op = "enter"
       /\ calls[k].state = "rejected"
       /\ calls[k].err = "unsupported"

\* C40: every font the rasterizer is given for an entry without data has
\* the weight that entry asks for, the resolver answering each call with
\* the name and weight it was asked for.
C40_RasterizedFontHasEntryWeight ==
  \A c \in cycles :
    c.pc \in {"satori", "decode"}
      => \A i \in DOMAIN c.entries :
           ~c.entries[i].data
             => /\ c.fonts[i] # NoFont
                /\ c.fonts[i].name = c.entries[i].name
                /\ c.fonts[i].weight = c.entries[i].weight

====
